---- MODULE Spec2Model ----
(***************************************************************************)
(* A model of the CRFS FUSE filesystem of src/unnamed/part_000: the lazy   *)
(* inode allocator, the root / content-node / whiteout hierarchy with its  *)
(* per-node child cache, and the directory merge of nodeHandle.ReadDirAll. *)
(*                                                                         *)
(* File names are TLA+ strings holding the bytes of the Go strings; prefix *)
(* tests and slicing are done on them as the Go code does.                 *)
(***************************************************************************)
EXTENDS Integers, Sequences, FiniteSets, TLC

VARIABLES
    atomicInodeIncr,  \* var atomicInodeIncr uint32
    lazyV,            \* lazyInode.v of the root node and of the two root dirEnts
    drawn,            \* history: how many times atomicInodeIncr was incremented
    mu,               \* dirEnts.mu of the root: 0 when free, else the worker holding it
    pc,               \* per worker: position inside the handler it runs
    callSlot,         \* per worker: the lazyInode its inode() call works on
    v,                \* per worker: the local v of lazyInode.inode
    ncalls,           \* per worker: handlers started
    returned,         \* history: <<slot, value>> of every inode() return
    dirChildren,      \* the children of the directory entry that is listed
    listings,         \* history: every result of nodeHandle.ReadDirAll
    iterOrders,       \* history: the iteration orders ReadDirAll met
    rootListings,     \* history: every result of dirEnts.ReadDirAll on the root
    readers,          \* the stargz readers opened so far (their heap region)
    nodes,            \* the node objects allocated so far, in allocation order
    lookups,          \* history: <<parent, name, inode>> of every Lookup that gave a node
    lastLookup,       \* history: the latest Lookup call and its result
    openFiles,        \* how many files os.Open gave that were not closed
    teXattrs,         \* n.te.Xattrs of the node whose attributes are asked for
    nOpaque,          \* n.opaque of that node
    firstList,        \* history: the first Listxattr call and its result
    lastXattr,        \* history: the latest Listxattr or Getxattr call and its result
    fileSize,         \* the size of the file a handle was opened for
    chunks,           \* the chunks the archive holds for that file
    lastChunkOff,     \* nodeHandle.lastChunkOff
    lastChunkSize,    \* nodeHandle.lastChunkSize
    lastChunk,        \* nodeHandle.lastChunk
    lastRead,         \* history: the latest Read request and its response
    initOnce,         \* dirEnts.initOnce of the root: its done flag and who holds its mutex
    deM,              \* dirEnts.m of the root: whether the map was made, and its keys
    doInitRuns,       \* history: how many times dirEnts.doInit ran
    slowPaths,        \* history: how many callers found initOnce not done
    rootReq,          \* per worker: the request on the root it serves
    rootLookupResults, \* history: <<name, result>> of every dirEnts.Lookup
    nodeTe,           \* n.te of the content node that single requests go to
    nodeOp,           \* history: the latest single request and its response
    lost,             \* history: the values whose compare-and-swap failed
    nodeMu,           \* node.mu of one content node: 0 or the worker holding it
    nodeChild,        \* node.child of that node: base name to child object
    childObjs,        \* the child objects its Lookup allocated, in order
    lookupReq,        \* per worker: the name it looks up and what it got
    lookupReturns,    \* history: <<name, child, err>> of every node.Lookup
    hMu,              \* nodeHandle.mu: 0 or the request holding it
    rdr,              \* per request: the locals of its nodeHandle.Read, and
                      \* after its return the response
    stored,           \* history: whether chunkData has stored into the slot
    proc,             \* the process: where main and its signal goroutine are
    env,              \* the command line, the mount table, and what happened
    heap,             \* the node objects, child maps and handles of a mount
    task,             \* per request: the Lookup or Read it is inside
    db,               \* the tables magic_links, users and sessions
    login,            \* per request: where its handleLoginVerify is, and
                      \* after its return what it gave
    clock             \* time.Now()

allocVars == <<atomicInodeIncr, lazyV, drawn>>
workerVars == <<mu, pc, callSlot, v, ncalls, returned>>
dirVars == <<dirChildren, listings, iterOrders, rootListings>>
fsVars == <<readers, nodes, lookups, lastLookup, openFiles>>
xattrVars == <<teXattrs, nOpaque, firstList, lastXattr>>
\* the state of the operations on one node or one handle
readVars ==
    <<fileSize, chunks, lastChunkOff, lastChunkSize, lastChunk, lastRead>>
rootVars ==
    <<initOnce, deM, doInitRuns, slowPaths, rootReq, rootLookupResults>>
nodeOpVars == <<nodeTe, nodeOp>>
\* the state of the specifications that stand apart from the ones above
lookupVars == <<nodeMu, nodeChild, childObjs, lookupReq, lookupReturns>>
readerVars == <<hMu, rdr, stored>>
mainVars == <<proc, env>>
cacheVars == <<heap, task>>
dbVars == <<db, login, clock>>
moreVars == <<cacheVars, dbVars>>
extVars == <<nodeOpVars, lost, lookupVars, readerVars, mainVars, moreVars>>
opVars == <<xattrVars, readVars, rootVars, extVars>>
vars == <<allocVars, workerVars, dirVars, fsVars, opVars>>

----------------------------------------------------------------------------
(* Bounds of the model *)

\* width of the scaled-down uint32 of atomicInodeIncr and lazyInode.v
CounterWidth == 4
\* concurrent request workers
NumWorkers == 2
\* handlers run in all, by all workers together
MaxCalls == 3

\* children of the directory that nodeHandle.ReadDirAll lists
MaxChildren == 3
\* archives opened by lookups of rootfs
MaxReaders == 2
\* node objects handed out by Lookup
MaxNodes == 3

\* extended attributes stored with one entry
MaxXattrs == 2
\* largest req.Position of a Listxattr or Getxattr request
MaxPosition == 4

\* bytes of the file that is read
MaxFileSize == 3
\* largest req.Size of a Read request
MaxReadSize == 4
\* bytes of the file that concurrent requests read
MaxChunkedSize == 2

\* signals sent to the process
MaxSignals == 2

\* the ticks of the clock
MaxClock == 2

----------------------------------------------------------------------------
(* Constants of the program *)

whiteoutPrefix == ".wh."
whiteoutOpaqueDir == whiteoutPrefix \o whiteoutPrefix \o ".opq"

opaqueXattr == "trusted.overlay.opaque"
opaqueXattrValue == "y"

\* the names FS.Root's initChildren puts in de.m
RootNames == {"rootfs", "README-crfs.txt"}

\* the lazyInode objects of the program: rootNode's and one per root dirEnt
Slots == {"root"} \cup RootNames

Uint32Modulus == 2 ^ CounterWidth

Workers == 1 .. NumWorkers

\* the requests that read one handle at the same time
ReaderIds == {1, 2}

----------------------------------------------------------------------------
(* strings *)

HasPrefix(s, prefix) ==
    Len(s) >= Len(prefix) /\ SubSeq(s, 1, Len(prefix)) = prefix

\* w[len(whiteoutPrefix):]
StripPrefix(w) == SubSeq(w, Len(whiteoutPrefix) + 1, Len(w))

\* the bytes that occur in the names of the model, in ASCII order
AsciiOrder == "-.ADEMRabcdefhopqrstwx"

CharCode(c) == CHOOSE i \in 1 .. Len(AsciiOrder) : SubSeq(AsciiOrder, i, i) = c

\* Go's a < b on strings: bytewise lexicographic
RECURSIVE StrLess(_, _)
StrLess(a, b) ==
    IF Len(b) = 0 THEN FALSE
    ELSE IF Len(a) = 0 THEN TRUE
    ELSE LET ca == CharCode(SubSeq(a, 1, 1))
             cb == CharCode(SubSeq(b, 1, 1))
         IN  IF ca # cb THEN ca < cb
             ELSE StrLess(SubSeq(a, 2, Len(a)), SubSeq(b, 2, Len(b)))

\* the sequences that hold every element of S once
Orders(S) ==
    {o \in [1 .. Cardinality(S) -> S] :
        \A i, j \in 1 .. Cardinality(S) : i # j => o[i] # o[j]}

----------------------------------------------------------------------------
(* The inode allocator: lazyInode.inode, one atomic operation per step *)

\* a fetch-and-add that hands back the value before the increment
AddUint32_old(addr, delta) == addr

\* a store of delta in place of the addition
AddUint32_store(addr, delta) == delta % Uint32Modulus

\* atomic.AddUint32: the new value, wrapping at the width of the counter
AddUint32(addr, delta) == (addr + delta) % Uint32Modulus

\* a plain store in place of the compare-and-swap
CompareAndSwapUint32_store(cur, old, new) == [swapped |-> TRUE, val |-> new]

\* atomic.CompareAndSwapUint32: whether it swapped, and the value left behind
CompareAndSwapUint32(cur, old, new) ==
    IF cur = old THEN [swapped |-> TRUE, val |-> new]
    ELSE [swapped |-> FALSE, val |-> cur]

RECURSIVE SumTo(_, _)
SumTo(f, n) == IF n = 0 THEN 0 ELSE f[n] + SumTo(f, n - 1)

\* handlers started so far
Started == SumTo(ncalls, NumWorkers)

\* the handler of worker w gets val from inode(); a handler that holds
\* dirEnts.mu still has its deferred Unlock to run
InodeReturn(w, val) ==
    /\ returned' = returned \cup {<<callSlot[w], val>>}
    /\ pc' = [pc EXCEPT ![w] = IF mu = w THEN "unlock" ELSE "idle"]

\* rootNode.Attr: calls n.inode() without any lock
StartRootAttr(w) ==
    /\ pc[w] = "idle"
    /\ Started < MaxCalls
    /\ pc' = [pc EXCEPT ![w] = "load"]
    /\ callSlot' = [callSlot EXCEPT ![w] = "root"]
    /\ ncalls' = [ncalls EXCEPT ![w] = @ + 1]
    /\ UNCHANGED <<allocVars, mu, v, returned, dirVars, fsVars, opVars>>

\* dirEnts.Lookup of a name of de.m: e.inode() is called holding de.mu
StartRootLookup(w, name) ==
    /\ pc[w] = "idle"
    /\ Started < MaxCalls
    /\ pc' = [pc EXCEPT ![w] = "lock"]
    /\ callSlot' = [callSlot EXCEPT ![w] = name]
    /\ ncalls' = [ncalls EXCEPT ![w] = @ + 1]
    /\ UNCHANGED <<allocVars, mu, v, returned, dirVars, fsVars, opVars>>

\* de.mu.Lock()
LockMu(w) ==
    /\ pc[w] = "lock"
    /\ mu = 0
    /\ mu' = w
    /\ pc' = [pc EXCEPT ![w] = "load"]
    /\ UNCHANGED <<allocVars, callSlot, v, ncalls, returned, dirVars, fsVars,
                   opVars>>

\* v := atomic.LoadUint32(&si.v); if v != 0 { return uint64(v) }
InodeLoad(w) ==
    /\ pc[w] = "load"
    /\ v' = [v EXCEPT ![w] = lazyV[callSlot[w]]]
    /\ IF lazyV[callSlot[w]] # 0
       THEN InodeReturn(w, lazyV[callSlot[w]])
       ELSE /\ pc' = [pc EXCEPT ![w] = "add"]
            /\ UNCHANGED returned
    /\ UNCHANGED <<allocVars, mu, callSlot, ncalls, dirVars, fsVars, opVars>>

\* v = atomic.AddUint32(&atomicInodeIncr, 1)
InodeAdd(w) ==
    /\ pc[w] = "add"
    /\ atomicInodeIncr' = AddUint32(atomicInodeIncr, 1)
    /\ drawn' = drawn + 1
    /\ v' = [v EXCEPT ![w] = AddUint32(atomicInodeIncr, 1)]
    /\ pc' = [pc EXCEPT ![w] = "cas"]
    /\ UNCHANGED <<lazyV, mu, callSlot, ncalls, returned, dirVars, fsVars,
                   opVars>>

\* if atomic.CompareAndSwapUint32(&si.v, 0, v) { return uint64(v) }; else loop
InodeCas(w) ==
    LET r == CompareAndSwapUint32(lazyV[callSlot[w]], 0, v[w]) IN
    /\ pc[w] = "cas"
    /\ lazyV' = [lazyV EXCEPT ![callSlot[w]] = r.val]
    /\ IF r.swapped
       THEN InodeReturn(w, v[w])
       ELSE /\ pc' = [pc EXCEPT ![w] = "load"]
            /\ UNCHANGED returned
    /\ lost' = IF r.swapped THEN lost ELSE lost \cup {v[w]}
    /\ UNCHANGED <<atomicInodeIncr, drawn, mu, callSlot, v, ncalls, dirVars,
                   fsVars, xattrVars, readVars, rootVars, nodeOpVars,
                   lookupVars, readerVars, mainVars, moreVars>>

\* the deferred de.mu.Unlock() of dirEnts.Lookup
UnlockMu(w) ==
    /\ pc[w] = "unlock"
    /\ mu = w
    /\ mu' = 0
    /\ pc' = [pc EXCEPT ![w] = "idle"]
    /\ UNCHANGED <<allocVars, callSlot, v, ncalls, returned, dirVars, fsVars,
                   opVars>>

InitAlloc ==
    /\ atomicInodeIncr = 0
    /\ lazyV = [s \in Slots |-> 0]
    /\ drawn = 0

InitWorkers ==
    /\ mu = 0
    /\ pc = [w \in Workers |-> "idle"]
    /\ callSlot = [w \in Workers |-> "root"]
    /\ v = [w \in Workers |-> 0]
    /\ ncalls = [w \in Workers |-> 0]
    /\ returned = {}

InitDirIdle ==
    /\ dirChildren = <<>>
    /\ listings = {}
    /\ iterOrders = {}
    /\ rootListings = {}

InitFSIdle ==
    /\ readers = <<>>
    /\ nodes = <<>>
    /\ lookups = {}
    /\ lastLookup = [parent |-> 0, name |-> "", err |-> "", inode |-> 0]
    /\ openFiles = 0

InitXattrIdle ==
    /\ teXattrs = <<>>
    /\ nOpaque = FALSE
    /\ firstList = [called |-> FALSE, pos |-> 0, data |-> <<>>]
    /\ lastXattr = [op |-> "", name |-> "", pos |-> 0, data |-> <<>>]

NoRead == [offset |-> 0, size |-> 0, data |-> <<>>, err |-> "", hits |-> 0]

InitReadIdle ==
    /\ fileSize = 0
    /\ chunks = {}
    /\ lastChunkOff = 0
    /\ lastChunkSize = 0
    /\ lastChunk = <<>>
    /\ lastRead = NoRead

\* the rootNode FS.Root returns: nothing of its dirEnts is set
InitRoot ==
    /\ initOnce = [done |-> 0, m |-> 0]
    /\ deM = [made |-> FALSE, names |-> {}]
    /\ doInitRuns = 0
    /\ slowPaths = 0
    /\ rootReq = [w \in Workers |-> [op |-> "", name |-> ""]]
    /\ rootLookupResults = {}

NoTe == [Type |-> "", NumLink |-> 0, LinkName |-> "", ptr |-> 0]

\* nodeOp before any request: handle is <<>> for nil, else <<h>>
NoNodeOp ==
    [op |-> "", dir |-> FALSE, openFileErr |-> "", err |-> "",
     handle |-> <<>>, target |-> "", Nlink |-> 0]

InitNodeOpIdle ==
    /\ nodeTe = NoTe
    /\ nodeOp = NoNodeOp

InitNoLost == lost = {}

NoLookup == [name |-> "", child |-> 0, err |-> ""]

\* a content node nobody has looked anything up under
InitNodeLookup ==
    /\ nodeMu = 0
    /\ nodeChild = <<>>
    /\ childObjs = <<>>
    /\ lookupReq = [w \in Workers |-> NoLookup]
    /\ lookupReturns = {}

NoChunk == [ChunkOffset |-> 0, ChunkSize |-> 0]

\* the locals of a worker that is not inside nodeHandle.Read
NoReader ==
    [pc |-> "idle", offset |-> 0, size |-> 0, data |-> <<>>, ce |-> NoChunk,
     buf |-> <<>>, err |-> ""]

InitReaders ==
    /\ hMu = 0
    /\ rdr = [w \in ReaderIds |-> NoReader]
    /\ stored = FALSE

\* the process before main runs; ch is the signal channel, exit is
\* "running" until the process ends
NoProc ==
    [mainPc |-> "start", sigPc |-> "none", mntPoint |-> "", notified |-> FALSE,
     ch |-> <<>>, exit |-> "running"]

NoEnv ==
    [args |-> <<>>, fuseDebug |-> FALSE, mounted |-> FALSE, signals |-> 0,
     events |-> {}]

InitMainIdle ==
    /\ proc = NoProc
    /\ env = NoEnv

\* a request that is inside no Lookup and no Read of the heap
NoTask ==
    [pc |-> "idle", on |-> 0, name |-> "", ce |-> NoChunk, buf |-> <<>>]

InitCachesIdle ==
    /\ heap = [nodes |-> <<>>, maps |-> <<>>, handles |-> <<>>]
    /\ task = [w \in {1, 2} |-> NoTask]

\* a request that has not entered handleLoginVerify
NoLogin ==
    [pc |-> "idle", token |-> "", email |-> "", expiresAt |-> 0,
     used |-> FALSE, verified |-> FALSE, userID |-> 0, userErr |-> "",
     status |-> ""]

InitDbIdle ==
    /\ db = [magic_links |-> <<>>, users |-> <<>>, sessions |-> <<>>]
    /\ login = [w \in {1, 2} |-> NoLogin]
    /\ clock = 0

InitMoreIdle == InitCachesIdle /\ InitDbIdle

InitExtIdle ==
    /\ InitNodeOpIdle /\ InitNoLost /\ InitNodeLookup /\ InitReaders
    /\ InitMainIdle /\ InitMoreIdle

InitOpsIdle == InitXattrIdle /\ InitReadIdle /\ InitRoot /\ InitExtIdle

InitInode ==
    InitAlloc /\ InitWorkers /\ InitDirIdle /\ InitFSIdle /\ InitOpsIdle

NextInode ==
    \/ \E w \in Workers : StartRootAttr(w)
    \/ \E w \in Workers, name \in RootNames : StartRootLookup(w, name)
    \/ \E w \in Workers : LockMu(w)
    \/ \E w \in Workers : InodeLoad(w)
    \/ \E w \in Workers : InodeAdd(w)
    \/ \E w \in Workers : InodeCas(w)
    \/ \E w \in Workers : UnlockMu(w)

\* concurrent workers calling inode() from rootNode.Attr and dirEnts.Lookup
SpecInode == InitInode /\ [][NextInode]_vars

----------------------------------------------------------------------------
(* The archive reader's entries (package stargz, not part of the sources   *)
(* at hand): a TOCEntry has a Type and children keyed by base name; it is  *)
(* a heap object, and the filesystem uses its address as inode number.     *)

\* the Type values of a TOCEntry; "hardlink" stands for the ones direntType
\* does not know
EntryTypes == {"dir", "reg", "symlink", "block", "char", "fifo", "hardlink"}

\* base names a listed directory may hold
DirNames ==
    <<"a", "b", ".wh.a", ".wh.b", whiteoutOpaqueDir, ".wh..wh.a",
      whiteoutPrefix \o whiteoutOpaqueDir, whiteoutPrefix>>

NameUniverse == {DirNames[i] : i \in 1 .. Len(DirNames)}

\* heap addresses lie above every value of the 32-bit inode counter
HeapBase == Uint32Modulus

\* the archive the debug root opens (busybox.stargz): entry 1 is the root
\* directory; a holds a file and a whiteout of it, b only a whiteout, d is
\* an opaque directory, and so is the root itself
Archive ==
    <<[base |-> "", parent |-> 0, Type |-> "dir"],
      [base |-> "a", parent |-> 1, Type |-> "reg"],
      [base |-> ".wh.a", parent |-> 1, Type |-> "reg"],
      [base |-> ".wh.b", parent |-> 1, Type |-> "reg"],
      [base |-> "d", parent |-> 1, Type |-> "dir"],
      [base |-> whiteoutOpaqueDir, parent |-> 5, Type |-> "reg"],
      [base |-> "b", parent |-> 5, Type |-> "symlink"],
      [base |-> whiteoutOpaqueDir, parent |-> 1, Type |-> "reg"]>>

\* TOCEntry.LookupChild: the index of the child of entry te with this base
\* name, 0 when there is none
LookupChild(te, baseName) ==
    LET found == {i \in 1 .. Len(Archive) :
                    Archive[i].parent = te /\ Archive[i].base = baseName}
    IN  IF found = {} THEN 0 ELSE CHOOSE i \in found : TRUE

\* the address of the idx-th TOCEntry of the reader placed in heap region
\* `region`; a region has room for RegionSize pointer-aligned entries
RegionSize == Len(DirNames) + Len(Archive) + 1
EntryAddr(region, idx) == HeapBase + 8 * (region * RegionSize + idx)

NameIndex(name) == CHOOSE i \in 1 .. Len(DirNames) : DirNames[i] = name

\* TOCEntry.ForeachChild visits every child once, in an order of its own
ForeachChildOrders(children) == Orders(DOMAIN children)

----------------------------------------------------------------------------
(* Directory listing: nodeHandle.ReadDirAll and dirEnts.ReadDirAll *)

Dirent(inode, type, name) == [Inode |-> inode, Type |-> type, Name |-> name]

inodeOfEnt(ent) == ent.ptr

\* direntType with the "fifo" case forgotten
direntType_nofifo(ent) ==
    CASE ent.Type = "dir" -> "DT_Dir"
      [] ent.Type = "reg" -> "DT_File"
      [] ent.Type = "symlink" -> "DT_Link"
      [] ent.Type = "block" -> "DT_Block"
      [] ent.Type = "char" -> "DT_Char"
      [] OTHER -> "DT_Unknown"

direntType(ent) ==
    CASE ent.Type = "dir" -> "DT_Dir"
      [] ent.Type = "reg" -> "DT_File"
      [] ent.Type = "symlink" -> "DT_Link"
      [] ent.Type = "block" -> "DT_Block"
      [] ent.Type = "char" -> "DT_Char"
      [] ent.Type = "fifo" -> "DT_FIFO"
      [] OTHER -> "DT_Unknown"

\* the callback ReadDirAll hands to ForeachChild; st holds ents, whiteouts
\* and normalEnts
VisitChild(st, baseName, ent) ==
    IF HasPrefix(baseName, whiteoutPrefix)
    THEN IF baseName = whiteoutOpaqueDir
         THEN st
         ELSE [st EXCEPT !.whiteouts = (baseName :> ent) @@ @]
    ELSE [st EXCEPT !.normalEnts = @ \cup {baseName},
                    !.ents = Append(@, Dirent(inodeOfEnt(ent), direntType(ent),
                                              baseName))]

RECURSIVE ForeachChild(_, _, _)
ForeachChild(children, order, st) ==
    IF order = <<>> THEN st
    ELSE ForeachChild(children, Tail(order),
                      VisitChild(st, Head(order), children[Head(order)]))

\* the whiteout loop without the test for an entry that replaces the target
AppendWhiteout_always(st, w) ==
    [st EXCEPT !.ents = Append(@, Dirent(inodeOfEnt(st.whiteouts[w]), "DT_Char",
                                         StripPrefix(w)))]

\* the body of "for w, ent := range whiteouts"
AppendWhiteout(st, w) ==
    IF StripPrefix(w) \notin st.normalEnts
    THEN [st EXCEPT !.ents = Append(@, Dirent(inodeOfEnt(st.whiteouts[w]),
                                              "DT_Char", StripPrefix(w)))]
    ELSE st

RECURSIVE RangeWhiteouts(_, _)
RangeWhiteouts(worder, st) ==
    IF worder = <<>> THEN st
    ELSE RangeWhiteouts(Tail(worder), AppendWhiteout(st, Head(worder)))

\* e placed before the first element of the sorted sequence s whose name
\* is greater
RECURSIVE InsertByName(_, _)
InsertByName(e, s) ==
    IF s = <<>> THEN <<e>>
    ELSE IF StrLess(e.Name, Head(s).Name) THEN <<e>> \o s
    ELSE <<Head(s)>> \o InsertByName(e, Tail(s))

\* the listing handed back as it was collected
SortByName_unsorted(ents) == ents

\* sort.Slice(ents, func(i, j int) bool { return ents[i].Name < ents[j].Name })
RECURSIVE SortByName(_)
SortByName(ents) ==
    IF ents = <<>> THEN <<>>
    ELSE InsertByName(ents[Len(ents)], SortByName(SubSeq(ents, 1, Len(ents) - 1)))

\* the whiteouts map of ReadDirAll after the ForeachChild pass
WhiteoutsOf(children, order) ==
    ForeachChild(children, order,
                 [ents |-> <<>>, whiteouts |-> <<>>, normalEnts |-> {}]).whiteouts

\* nodeHandle.ReadDirAll on a node whose entry has these children, when
\* ForeachChild visits them in `order` and the range over the whiteouts map
\* runs in `worder`
ReadDirAll(children, order, worder) ==
    LET st0 == [ents |-> <<>>, whiteouts |-> <<>>, normalEnts |-> {}]
        st1 == ForeachChild(children, order, st0)
        st2 == RangeWhiteouts(worder, st1)
    IN  SortByName(st2.ents)

\* node.Lookup(name) on a node whose entry has these children and whose
\* child map has no entry for the name: not found, a whiteout of the entry
\* .wh.name, or a node of the entry name
LookupAmong(children, name) ==
    IF HasPrefix(name, whiteoutPrefix)
    THEN [res |-> "ENOENT", ent |-> NoTe]
    ELSE IF name \notin DOMAIN children
    THEN IF (whiteoutPrefix \o name) \in DOMAIN children
         THEN [res |-> "whiteout", ent |-> children[whiteoutPrefix \o name]]
         ELSE [res |-> "ENOENT", ent |-> NoTe]
    ELSE [res |-> "node", ent |-> children[name]]

\* lazyInode.inode run with no other caller on the same slot: the value it
\* returns and the counter it leaves
InodeAlone(slotVal, counter) ==
    IF slotVal # 0 THEN [val |-> slotVal, counter |-> counter]
    ELSE [val |-> AddUint32(counter, 1), counter |-> AddUint32(counter, 1)]

\* the range over de.m of dirEnts.ReadDirAll, visiting the names in `order`;
\* st holds ents, lazyV and the counter
RECURSIVE RangeDirEnts(_, _)
RangeDirEnts(order, st) ==
    IF order = <<>> THEN st
    ELSE LET name == Head(order)
             r == InodeAlone(st.lazyV[name], st.counter)
             dtype == IF name = "rootfs" THEN "DT_Dir" ELSE "DT_File"
         IN  RangeDirEnts(Tail(order),
                 [ents |-> Append(st.ents, Dirent(r.val, dtype, name)),
                  lazyV |-> [st.lazyV EXCEPT ![name] = r.val],
                  counter |-> r.counter])

IsAscending(order) ==
    \A i, j \in 1 .. Len(order) : i < j => StrLess(order[i], order[j])

\* nodeHandle.ReadDirAll of the listed directory
NodeReadDirAll ==
    \E order \in ForeachChildOrders(dirChildren) :
    \E worder \in Orders(DOMAIN WhiteoutsOf(dirChildren, order)) :
        /\ listings' = listings \cup {ReadDirAll(dirChildren, order, worder)}
        /\ iterOrders' = iterOrders \cup
               {IF IsAscending(order) THEN "ascending" ELSE "other"}
        /\ UNCHANGED <<allocVars, workerVars, dirChildren, rootListings,
                       fsVars, opVars>>

\* dirEnts.ReadDirAll of the root, holding de.mu from start to end
RootReadDirAll ==
    \E order \in Orders(RootNames) :
        LET st == RangeDirEnts(order, [ents |-> <<>>, lazyV |-> lazyV,
                                       counter |-> atomicInodeIncr])
        IN  /\ rootListings' = rootListings \cup {SortByName(st.ents)}
            /\ lazyV' = st.lazyV
            /\ atomicInodeIncr' = st.counter
            /\ drawn' = drawn + Cardinality({n \in RootNames : lazyV[n] = 0})
            /\ UNCHANGED <<workerVars, dirChildren, listings, iterOrders,
                           fsVars, opVars>>

\* a directory entry of an archive with names of `universe`: at most
\* MaxChildren children, the plain ones of any type, the whiteout files
\* regular files
InitDirAmong(universe) ==
    /\ \E S \in SUBSET universe :
         /\ Cardinality(S) <= MaxChildren
         /\ \E ty \in [S -> EntryTypes] :
              /\ \A n \in S : HasPrefix(n, whiteoutPrefix) => ty[n] = "reg"
              /\ dirChildren =
                   [n \in S |-> [Type |-> ty[n], ptr |-> EntryAddr(0, NameIndex(n))]]
    /\ listings = {}
    /\ iterOrders = {}
    /\ rootListings = {}

\* a directory none of whose children is named by the bare prefix
InitDir == InitDirAmong(NameUniverse \ {whiteoutPrefix})

InitDirSpec ==
    InitAlloc /\ InitWorkers /\ InitDir /\ InitFSIdle /\ InitOpsIdle

NextDir == NodeReadDirAll \/ RootReadDirAll

\* directory listings of one content node and of the root
SpecDir == InitDirSpec /\ [][NextDir]_vars

\* a directory of any names, a child named by the bare prefix among them
InitAnyDirSpec ==
    /\ InitAlloc /\ InitWorkers /\ InitDirAmong(NameUniverse)
    /\ InitFSIdle /\ InitOpsIdle

\* directory listings over every set of child names
SpecAnyDir == InitAnyDirSpec /\ [][NextDir]_vars

----------------------------------------------------------------------------
(* The node hierarchy: rootNode, staticFile, node, whiteout.  A handler    *)
(* that holds the mutex of its directory from start to end is one step.    *)

\* the names the kernel asks a content node for
LookupNames == {"a", "b", "d", "x", ".wh.b", whiteoutOpaqueDir}

\* how layerDebugRoot.Lookup can end: at os.Open, f.Stat, stargz.Open,
\* r.Lookup(""), or with a node
OpenOutcomes == {"ok", "open", "stat", "parse", "noroot"}

\* heap regions a stargz reader may be placed in
Regions == 1 .. MaxReaders

\* the TOCEntry idx of reader r
Ent(r, idx) ==
    [Type |-> Archive[idx].Type, ptr |-> EntryAddr(readers[r], idx)]

NewNode(kind, r, te, opaque, inode) ==
    [kind |-> kind, reader |-> r, te |-> te, opaque |-> opaque,
     inode |-> inode, child |-> <<>>]

\* a.Inode as the Attr of node object i sets it
AttrInode(i) ==
    IF nodes[i].kind = "staticFile" THEN nodes[i].inode
    ELSE inodeOfEnt(Ent(nodes[i].reader, nodes[i].te))

ContentNodes == {i \in 1 .. Len(nodes) : nodes[i].kind = "node"}

\* unix.Mkdev for device numbers below 256
Mkdev(major, minor) == major * 256 + minor

\* the conversion uint32(x) of an integer x
Uint32(x) == x % Uint32Modulus

\* the fuse.Attr that whiteout.Attr fills in for the entry te; a field it
\* does not set keeps the zero value
whiteoutAttr(te) ==
    [Inode |-> inodeOfEnt(te),
     Mode |-> {"ModeDevice", "ModeCharDevice"},
     Rdev |-> Mkdev(0, 0),
     Nlink |-> 1,
     Size |-> 0]

\* whiteout.Attr of node object i
WhiteoutAttr(i) == whiteoutAttr(Ent(nodes[i].reader, nodes[i].te))

\* a.Inode and a.Nlink as node.Attr sets them for the entry te
nodeAttr(te) ==
    [Inode |-> inodeOfEnt(te),
     Nlink |-> IF Uint32(te.NumLink) = 0 THEN 1 ELSE Uint32(te.NumLink)]

\* rootNode.Attr with no other caller inside n.inode()
RootAttr ==
    LET r == InodeAlone(lazyV["root"], atomicInodeIncr) IN
    /\ lazyV' = [lazyV EXCEPT !["root"] = r.val]
    /\ atomicInodeIncr' = r.counter
    /\ drawn' = drawn + (IF lazyV["root"] = 0 THEN 1 ELSE 0)
    /\ UNCHANGED <<workerVars, dirVars, fsVars, opVars>>

\* dirEnts.Lookup of a name that is not in de.m
RootLookupMissing(name) ==
    /\ name \notin RootNames
    /\ lastLookup' = [parent |-> 0, name |-> name, err |-> "ENOENT", inode |-> 0]
    /\ UNCHANGED <<allocVars, workerVars, dirVars, readers, nodes, lookups,
                   openFiles, opVars>>

\* dirEnts.Lookup("README-crfs.txt"): lookupNode makes a staticFile that
\* carries the inode of the dirEnt
RootLookupStatic ==
    LET name == "README-crfs.txt"
        r == InodeAlone(lazyV[name], atomicInodeIncr)
    IN  /\ Len(nodes) < MaxNodes
        /\ lazyV' = [lazyV EXCEPT ![name] = r.val]
        /\ atomicInodeIncr' = r.counter
        /\ drawn' = drawn + (IF lazyV[name] = 0 THEN 1 ELSE 0)
        /\ nodes' = Append(nodes, NewNode("staticFile", 0, 0, FALSE, r.val))
        /\ lookups' = lookups \cup {<<0, name, r.val>>}
        /\ lastLookup' = [parent |-> 0, name |-> name, err |-> "", inode |-> r.val]
        /\ UNCHANGED <<workerVars, dirVars, readers, openFiles, opVars>>

\* layerDebugRoot.Lookup that leaves the file open when the archive has no
\* root entry
DebugRootLookup_noclose(outcome) ==
    [node |-> outcome = "ok",
     err |-> IF outcome = "ok" THEN "" ELSE outcome,
     opened |-> IF outcome = "open" THEN 0 ELSE 1,
     closed |-> IF outcome \in {"stat", "parse"} THEN 1 ELSE 0]

\* layerDebugRoot.Lookup when `outcome` names the call that fails: whether
\* it returns a node, its error, and the files it opened and closed
DebugRootLookup(outcome) ==
    CASE outcome = "open" ->
           [node |-> FALSE, err |-> "open", opened |-> 0, closed |-> 0]
      [] outcome = "stat" ->
           [node |-> FALSE, err |-> "stat", opened |-> 1, closed |-> 1]
      [] outcome = "parse" ->
           [node |-> FALSE, err |-> "parse", opened |-> 1, closed |-> 1]
      [] outcome = "noroot" ->
           [node |-> FALSE, err |-> "noroot", opened |-> 1, closed |-> 1]
      [] OTHER ->
           [node |-> TRUE, err |-> "", opened |-> 1, closed |-> 0]

\* dirEnts.Lookup("rootfs"): lookupNode makes a layerDebugRoot and returns
\* what its Lookup("busybox.stargz") returns
RootLookupRootfs(outcome, region) ==
    LET name == "rootfs"
        r == InodeAlone(lazyV[name], atomicInodeIncr)
        got == DebugRootLookup(outcome)
    IN  /\ lazyV' = [lazyV EXCEPT ![name] = r.val]
        /\ atomicInodeIncr' = r.counter
        /\ drawn' = drawn + (IF lazyV[name] = 0 THEN 1 ELSE 0)
        /\ openFiles' = openFiles + got.opened - got.closed
        /\ IF got.node
           THEN /\ Len(nodes) < MaxNodes
                /\ Len(readers) < MaxReaders
                /\ \A k \in 1 .. Len(readers) : readers[k] # region
                /\ readers' = Append(readers, region)
                /\ nodes' = Append(nodes,
                       NewNode("node", Len(readers) + 1, 1, FALSE, 0))
                /\ lookups' = lookups \cup {<<0, name, EntryAddr(region, 1)>>}
                /\ lastLookup' = [parent |-> 0, name |-> name, err |-> "",
                                  inode |-> EntryAddr(region, 1)]
           ELSE /\ region = 1
                /\ lastLookup' = [parent |-> 0, name |-> name, err |-> got.err,
                                  inode |-> 0]
                /\ UNCHANGED <<readers, nodes, lookups>>
        /\ UNCHANGED <<workerVars, dirVars, opVars>>

\* node.Lookup without the test for the whiteout prefix
NodeLookupResolve_noprefix(n, name) ==
    LET te == nodes[n].te
        e == LookupChild(te, name)
        we == LookupChild(te, whiteoutPrefix \o name)
    IN  IF name \in DOMAIN nodes[n].child
        THEN [res |-> "cached", node |-> nodes[n].child[name], te |-> 0,
              opaque |-> FALSE]
        ELSE IF e = 0
        THEN IF we # 0
             THEN [res |-> "whiteout", node |-> 0, te |-> we, opaque |-> FALSE]
             ELSE [res |-> "ENOENT", node |-> 0, te |-> 0, opaque |-> FALSE]
        ELSE [res |-> "node", node |-> 0, te |-> e,
              opaque |-> LookupChild(e, whiteoutOpaqueDir) # 0]

\* node.Lookup with the whiteout-prefixed form resolved before the plain name
NodeLookupResolve_whiteoutfirst(n, name) ==
    LET te == nodes[n].te
        e == LookupChild(te, name)
        we == LookupChild(te, whiteoutPrefix \o name)
    IN  IF name \in DOMAIN nodes[n].child
        THEN [res |-> "cached", node |-> nodes[n].child[name], te |-> 0,
              opaque |-> FALSE]
        ELSE IF HasPrefix(name, whiteoutPrefix)
        THEN [res |-> "ENOENT", node |-> 0, te |-> 0, opaque |-> FALSE]
        ELSE IF we # 0
        THEN [res |-> "whiteout", node |-> 0, te |-> we, opaque |-> FALSE]
        ELSE IF e = 0
        THEN [res |-> "ENOENT", node |-> 0, te |-> 0, opaque |-> FALSE]
        ELSE [res |-> "node", node |-> 0, te |-> e,
              opaque |-> LookupChild(e, whiteoutOpaqueDir) # 0]

\* what node.Lookup(name) on node object n comes to: the cached child, not
\* found, a new whiteout of entry te, or a new node of entry te
NodeLookupResolve(n, name) ==
    LET te == nodes[n].te
        e == LookupChild(te, name)
        we == LookupChild(te, whiteoutPrefix \o name)
    IN  IF name \in DOMAIN nodes[n].child
        THEN [res |-> "cached", node |-> nodes[n].child[name], te |-> 0,
              opaque |-> FALSE]
        ELSE IF HasPrefix(name, whiteoutPrefix)
        THEN [res |-> "ENOENT", node |-> 0, te |-> 0, opaque |-> FALSE]
        ELSE IF e = 0
        THEN IF we # 0
             THEN [res |-> "whiteout", node |-> 0, te |-> we, opaque |-> FALSE]
             ELSE [res |-> "ENOENT", node |-> 0, te |-> 0, opaque |-> FALSE]
        ELSE [res |-> "node", node |-> 0, te |-> e,
              opaque |-> LookupChild(e, whiteoutOpaqueDir) # 0]

\* node.Lookup, under n.mu from start to end
NodeLookup(n, name) ==
    LET got == NodeLookupResolve(n, name)
        rd == nodes[n].reader
        new == Len(nodes) + 1
    IN  /\ nodes[n].kind = "node"
        /\ CASE got.res = "cached" ->
                  /\ lookups' = lookups \cup {<<n, name, AttrInode(got.node)>>}
                  /\ lastLookup' = [parent |-> n, name |-> name, err |-> "",
                                    inode |-> AttrInode(got.node)]
                  /\ UNCHANGED nodes
             [] got.res = "ENOENT" ->
                  /\ lastLookup' = [parent |-> n, name |-> name,
                                    err |-> "ENOENT", inode |-> 0]
                  /\ UNCHANGED <<nodes, lookups>>
             [] OTHER ->
                  /\ Len(nodes) < MaxNodes
                  /\ nodes' = Append(
                         [nodes EXCEPT ![n].child = (name :> new) @@ @],
                         NewNode(got.res, rd, got.te, got.opaque, 0))
                  /\ lookups' = lookups \cup
                         {<<n, name, inodeOfEnt(Ent(rd, got.te))>>}
                  /\ lastLookup' = [parent |-> n, name |-> name, err |-> "",
                                    inode |-> inodeOfEnt(Ent(rd, got.te))]
        /\ UNCHANGED <<allocVars, workerVars, dirVars, readers, openFiles, opVars>>

\* TOCEntry.LinkName of the entry idx
LinkName(idx) == IF Archive[idx].Type = "symlink" THEN "a" ELSE ""

\* node.Readlink that gives the link name of an entry of any type
nodeReadlink_anytype(te) == [target |-> te.LinkName, err |-> ""]

\* what node.Readlink returns for the entry te
nodeReadlink(te) ==
    IF te.Type # "symlink"
    THEN [target |-> "", err |-> "EINVAL"]
    ELSE [target |-> te.LinkName, err |-> ""]

\* what node.Readlink on node object n returns
ReadlinkResult(n) ==
    nodeReadlink([Type |-> Archive[nodes[n].te].Type,
                  LinkName |-> LinkName(nodes[n].te)])

\* node.Readlink: it reads n.te and writes nothing
NodeReadlink(n) ==
    /\ nodes[n].kind = "node"
    /\ ReadlinkResult(n).err \in {"", "EINVAL"}
    /\ UNCHANGED vars

InitFS ==
    InitAlloc /\ InitWorkers /\ InitDirIdle /\ InitFSIdle /\ InitOpsIdle

NextFS ==
    \/ RootAttr
    \/ \E name \in {"x"} : RootLookupMissing(name)
    \/ RootLookupStatic
    \/ \E outcome \in OpenOutcomes, region \in Regions :
           RootLookupRootfs(outcome, region)
    \/ \E n \in 1 .. Len(nodes), name \in LookupNames : NodeLookup(n, name)
    \/ \E n \in 1 .. Len(nodes) : NodeReadlink(n)

\* lookups and attrs on the mounted tree, one request at a time
SpecFS == InitFS /\ [][NextFS]_vars

----------------------------------------------------------------------------
(* Extended attributes: node.Listxattr and node.Getxattr.  A []byte is a   *)
(* sequence of one-character strings; the byte 0 is the element NUL.       *)

NUL == "NUL"

\* []byte(str)
Bytes(str) == [i \in 1 .. Len(str) |-> SubSeq(str, i, i)]

\* the attribute names and values an archive entry may store
XattrNames == {"u.a", "u.b", opaqueXattr}
XattrValues == {"", "yz"}

\* the names Getxattr is asked for
GetxattrNames == XattrNames \cup {"u.x"}

Positions == 0 .. MaxPosition

\* allXattrs = append(append(allXattrs, []byte(k)...), 0)
AppendName(allXattrs, k) == allXattrs \o Bytes(k) \o <<NUL>>

\* for k := range n.te.Xattrs, the range meeting the keys in `order`
RECURSIVE RangeXattrs(_, _)
RangeXattrs(order, allXattrs) ==
    IF order = <<>> THEN allXattrs
    ELSE RangeXattrs(Tail(order), AppendName(allXattrs, Head(order)))

\* the test of req.Position against the length, and the slice [req.Position:]
FromPosition(b, position) ==
    IF position >= Len(b) THEN <<>> ELSE SubSeq(b, position + 1, Len(b))

\* allXattrs as Listxattr builds it
AllXattrs(order) ==
    RangeXattrs(order, IF nOpaque THEN AppendName(<<>>, opaqueXattr) ELSE <<>>)

\* xattr as Getxattr picks it; a key that is not in the map gives nil
XattrOf(name) ==
    IF name = opaqueXattr
    THEN IF nOpaque THEN Bytes(opaqueXattrValue) ELSE <<>>
    ELSE IF name \in DOMAIN teXattrs THEN Bytes(teXattrs[name]) ELSE <<>>

\* node.Listxattr
Listxattr(position) ==
    \E order \in Orders(DOMAIN teXattrs) :
        LET data == FromPosition(AllXattrs(order), position) IN
        /\ lastXattr' = [op |-> "list", name |-> "", pos |-> position,
                         data |-> data]
        /\ firstList' = IF firstList.called THEN firstList
                        ELSE [called |-> TRUE, pos |-> position, data |-> data]
        /\ UNCHANGED <<allocVars, workerVars, dirVars, fsVars, teXattrs,
                       nOpaque, readVars, rootVars, extVars>>

\* node.Getxattr
Getxattr(name, position) ==
    /\ lastXattr' = [op |-> "get", name |-> name, pos |-> position,
                     data |-> FromPosition(XattrOf(name), position)]
    /\ UNCHANGED <<allocVars, workerVars, dirVars, fsVars, teXattrs, nOpaque,
                   firstList, readVars, rootVars, extVars>>

\* a content node of an entry that stores at most MaxXattrs attributes
InitXattr ==
    /\ \E S \in SUBSET XattrNames :
         /\ Cardinality(S) <= MaxXattrs
         /\ teXattrs \in [S -> XattrValues]
    /\ nOpaque \in BOOLEAN
    /\ firstList = [called |-> FALSE, pos |-> 0, data |-> <<>>]
    /\ lastXattr = [op |-> "", name |-> "", pos |-> 0, data |-> <<>>]

InitXattrSpec ==
    /\ InitAlloc /\ InitWorkers /\ InitDirIdle /\ InitFSIdle
    /\ InitXattr /\ InitReadIdle /\ InitRoot /\ InitExtIdle

NextXattr ==
    \/ \E position \in Positions : Listxattr(position)
    \/ \E name \in GetxattrNames, position \in Positions :
           Getxattr(name, position)

\* listxattr and getxattr requests on one content node
SpecXattr == InitXattrSpec /\ [][NextXattr]_vars

----------------------------------------------------------------------------
(* Reading a file: nodeHandle.Read and nodeHandle.chunkData over the chunk *)
(* table of the archive reader.  The byte at logical offset i of the file  *)
(* is the number i, so bytes of another place show.                        *)

Min(a, b) == IF a < b THEN a ELSE b

\* the bytes of the file from offset `from` up to, not including, `to`
FileBytes(from, to) == [i \in 1 .. (to - from) |-> from + i - 1]

\* the chunks a file of `size` bytes may have: ranges of at least one byte
\* inside the file
ChunkRanges(size) ==
    {c \in [ChunkOffset : 0 .. size, ChunkSize : 1 .. size] :
        c.ChunkOffset + c.ChunkSize <= size}

Disjoint(c, d) ==
    \/ c.ChunkOffset + c.ChunkSize <= d.ChunkOffset
    \/ d.ChunkOffset + d.ChunkSize <= c.ChunkOffset

\* whether a chunk holds the byte at `offset`
Covers(c, offset) ==
    c.ChunkOffset <= offset /\ offset < c.ChunkOffset + c.ChunkSize

\* whether a chunk is one of no bytes that starts at `offset`
EmptyAt(c, offset) == c.ChunkSize = 0 /\ c.ChunkOffset = offset

\* Reader.ChunkEntryForOffset: the chunk that covers the offset, if any; a
\* chunk of no bytes stands for the offset it starts at
ChunkEntryForOffset(offset) ==
    LET found == {c \in chunks : Covers(c, offset) \/ EmptyAt(c, offset)}
    IN  IF found = {} THEN [ok |-> FALSE, ce |-> [ChunkOffset |-> 0, ChunkSize |-> 0]]
        ELSE [ok |-> TRUE, ce |-> CHOOSE c \in found : TRUE]

\* h.sr.ReadAt(buf, offset) with len(buf) = size: an offset at or beyond
\* the end gives io.EOF; a range inside the file is read in full; a range
\* that passes the end gives what there is, the rest of buf zero, and io.EOF
ReadAt(offset, size) ==
    IF offset >= fileSize THEN [buf |-> [i \in 1 .. size |-> 0], err |-> "EOF"]
    ELSE IF offset + size <= fileSize
    THEN [buf |-> FileBytes(offset, offset + size), err |-> ""]
    ELSE [buf |-> FileBytes(offset, fileSize)
                  \o [i \in 1 .. (offset + size - fileSize) |-> 0],
          err |-> "EOF"]

\* chunkData handing out the cached chunk without the test of its key
chunkData_anyhit(cache, offset, size, ioFails) ==
    IF cache.chunk # <<>>
    THEN [data |-> cache.chunk, err |-> "", cache |-> cache, hit |-> 1]
    ELSE IF ioFails
    THEN [data |-> <<>>, err |-> "EIO", cache |-> cache, hit |-> 0]
    ELSE [data |-> ReadAt(offset, size).buf, err |-> ReadAt(offset, size).err,
          cache |-> [off |-> offset, size |-> size,
                     chunk |-> ReadAt(offset, size).buf],
          hit |-> 0]

\* nodeHandle.chunkData on a handle whose cache fields are `cache`; ioFails
\* says whether the storage fails the ReadAt
chunkData(cache, offset, size, ioFails) ==
    IF cache.off = offset /\ cache.size = size
    THEN [data |-> cache.chunk, err |-> "", cache |-> cache, hit |-> 1]
    ELSE LET r == ReadAt(offset, size)
             err == IF ioFails THEN "EIO" ELSE r.err
         IN  [data |-> r.buf, err |-> err,
              cache |-> IF err = ""
                        THEN [off |-> offset, size |-> size, chunk |-> r.buf]
                        ELSE cache,
              hit |-> 0]

\* a copy that takes no notice of the room left in the destination
CopyChunk_noroom(room, chunk, from) == SubSeq(chunk, from + 1, Len(chunk))

\* copy(resp.Data[nr:], chunkData[from:]): the bytes that are copied
CopyChunk(room, chunk, from) ==
    SubSeq(chunk, from + 1, from + Min(room, Len(chunk) - from))

\* a loop that ends after the first chunk
MoreWanted_once(nr, size) == nr = 0

\* for nr < req.Size
MoreWanted(nr, size) == nr < size

\* the loop of nodeHandle.Read; st holds resp.Data[:nr], the error to
\* return, the cache fields and the number of cache hits
RECURSIVE ReadLoop(_, _, _, _)
ReadLoop(offset, size, ioFails, st) ==
    LET nr == Len(st.data)
        found == ChunkEntryForOffset(offset + nr)
        cd == chunkData(st.cache, found.ce.ChunkOffset, found.ce.ChunkSize,
                        ioFails)
        got == CopyChunk(size - nr, cd.data, offset + nr - found.ce.ChunkOffset)
    IN  IF ~MoreWanted(nr, size) \/ ~found.ok THEN st
        ELSE IF cd.err # ""
        THEN [st EXCEPT !.err = cd.err, !.cache = cd.cache]
        ELSE ReadLoop(offset, size, ioFails,
                      [data |-> st.data \o got, err |-> "", cache |-> cd.cache,
                       hits |-> st.hits + cd.hit])

\* nodeHandle.Read, one request at a time on the handle
Read(offset, size, ioFails) ==
    LET st == ReadLoop(offset, size, ioFails,
                       [data |-> <<>>, err |-> "",
                        cache |-> [off |-> lastChunkOff, size |-> lastChunkSize,
                                   chunk |-> lastChunk],
                        hits |-> 0])
    IN  /\ lastChunkOff' = st.cache.off
        /\ lastChunkSize' = st.cache.size
        /\ lastChunk' = st.cache.chunk
        /\ lastRead' = [offset |-> offset, size |-> size,
                        data |-> IF st.err = "" THEN st.data ELSE <<>>,
                        err |-> st.err, hits |-> st.hits]
        /\ UNCHANGED <<allocVars, workerVars, dirVars, fsVars, xattrVars,
                       fileSize, chunks, rootVars, extVars>>

\* node.Open of a regular file of at most MaxFileSize bytes whose chunks do
\* not overlap: the handle starts with the zero values in its cache fields
InitRead ==
    /\ fileSize \in 0 .. MaxFileSize
    /\ chunks \in SUBSET ChunkRanges(fileSize)
    /\ \A c, d \in chunks : c # d => Disjoint(c, d)
    /\ lastChunkOff = 0
    /\ lastChunkSize = 0
    /\ lastChunk = <<>>
    /\ lastRead = NoRead

InitReadSpec ==
    /\ InitAlloc /\ InitWorkers /\ InitDirIdle /\ InitFSIdle
    /\ InitXattrIdle /\ InitRead /\ InitRoot /\ InitExtIdle

NextRead ==
    \E offset \in 0 .. MaxFileSize + 1, size \in 1 .. MaxReadSize,
       ioFails \in BOOLEAN : Read(offset, size, ioFails)

\* read requests on one open file handle
SpecRead == InitReadSpec /\ [][NextRead]_vars

----------------------------------------------------------------------------
(* The root directory under concurrent requests: dirEnts.condInit through  *)
(* sync.Once, then the handler body under de.mu.                           *)

\* the names the kernel asks the root for
RootLookupNames == RootNames \cup {"x"}

\* the type FS.Root gives the dirEnt of a name
RootDtype(name) == IF name = "rootfs" THEN "DT_Dir" ELSE "DT_File"

\* a Once that runs f for every caller that found it not done
OnceMustRun_always(done) == TRUE

\* sync.Once.Do, holding its mutex: f runs if done is still 0
OnceMustRun(done) == done = 0

\* dirEnts.ReadDirAll arrives
StartDirEntsReadDirAll(w) ==
    /\ pc[w] = "idle"
    /\ Started < MaxCalls
    /\ pc' = [pc EXCEPT ![w] = "condInit"]
    /\ ncalls' = [ncalls EXCEPT ![w] = @ + 1]
    /\ rootReq' = [rootReq EXCEPT ![w] = [op |-> "ReadDirAll", name |-> ""]]
    /\ UNCHANGED <<allocVars, mu, callSlot, v, returned, dirVars, fsVars,
                   xattrVars, readVars, initOnce, deM, doInitRuns, slowPaths,
                   rootLookupResults, extVars>>

\* dirEnts.Lookup(name) arrives
StartDirEntsLookup(w, name) ==
    /\ pc[w] = "idle"
    /\ Started < MaxCalls
    /\ pc' = [pc EXCEPT ![w] = "condInit"]
    /\ ncalls' = [ncalls EXCEPT ![w] = @ + 1]
    /\ rootReq' = [rootReq EXCEPT ![w] = [op |-> "Lookup", name |-> name]]
    /\ UNCHANGED <<allocVars, mu, callSlot, v, returned, dirVars, fsVars,
                   xattrVars, readVars, initOnce, deM, doInitRuns, slowPaths,
                   rootLookupResults, extVars>>

\* de.initOnce.Do: the load of the done flag
OnceLoad(w) ==
    /\ pc[w] = "condInit"
    /\ pc' = [pc EXCEPT ![w] = IF initOnce.done = 1 THEN "lock" ELSE "doSlow"]
    /\ slowPaths' = slowPaths + (IF initOnce.done = 1 THEN 0 ELSE 1)
    /\ UNCHANGED <<allocVars, mu, callSlot, v, ncalls, returned, dirVars,
                   fsVars, xattrVars, readVars, initOnce, deM, doInitRuns,
                   rootReq, rootLookupResults, extVars>>

\* de.initOnce.Do: the mutex of the Once is taken; a caller that finds the
\* work done gives it back at once
OnceDoSlow(w) ==
    /\ pc[w] = "doSlow"
    /\ initOnce.m = 0
    /\ IF OnceMustRun(initOnce.done)
       THEN /\ initOnce' = [initOnce EXCEPT !.m = w]
            /\ pc' = [pc EXCEPT ![w] = "doInit"]
       ELSE /\ pc' = [pc EXCEPT ![w] = "lock"]
            /\ UNCHANGED initOnce
    /\ UNCHANGED <<allocVars, mu, callSlot, v, ncalls, returned, dirVars,
                   fsVars, xattrVars, readVars, deM, doInitRuns, slowPaths,
                   rootReq, rootLookupResults, extVars>>

\* doInit: de.m = map[string]*dirEnt{}
DoInitMake(w) ==
    /\ pc[w] = "doInit"
    /\ deM' = [made |-> TRUE, names |-> {}]
    /\ doInitRuns' = doInitRuns + 1
    /\ pc' = [pc EXCEPT ![w] = "initChildren"]
    /\ UNCHANGED <<allocVars, mu, callSlot, v, ncalls, returned, dirVars,
                   fsVars, xattrVars, readVars, initOnce, slowPaths, rootReq,
                   rootLookupResults, extVars>>

\* doInit: de.initChildren(de) puts the two dirEnts; the Once is done
DoInitChildren(w) ==
    /\ pc[w] = "initChildren"
    /\ deM' = [deM EXCEPT !.names = @ \cup RootNames]
    /\ initOnce' = [done |-> 1, m |-> 0]
    /\ pc' = [pc EXCEPT ![w] = "lock"]
    /\ UNCHANGED <<allocVars, mu, callSlot, v, ncalls, returned, dirVars,
                   fsVars, xattrVars, readVars, doInitRuns, slowPaths, rootReq,
                   rootLookupResults, extVars>>

\* de.mu.Lock() of dirEnts.Lookup and dirEnts.ReadDirAll
LockDe(w) ==
    /\ pc[w] = "lock"
    /\ mu = 0
    /\ mu' = w
    /\ pc' = [pc EXCEPT ![w] = "body"]
    /\ UNCHANGED <<allocVars, callSlot, v, ncalls, returned, dirVars, fsVars,
                   opVars>>

\* dirEnts.ReadDirAll from the range over de.m to the sort
DirEntsReadDirAllBody(w) ==
    /\ pc[w] = "body"
    /\ rootReq[w].op = "ReadDirAll"
    /\ \E order \in Orders(deM.names) :
         LET st == RangeDirEnts(order, [ents |-> <<>>, lazyV |-> lazyV,
                                        counter |-> atomicInodeIncr])
         IN  /\ rootListings' = rootListings \cup {SortByName(st.ents)}
             /\ lazyV' = st.lazyV
             /\ atomicInodeIncr' = st.counter
             /\ drawn' = drawn + Cardinality({n \in deM.names : lazyV[n] = 0})
    /\ pc' = [pc EXCEPT ![w] = "unlock"]
    /\ UNCHANGED <<mu, callSlot, v, ncalls, returned, dirChildren, listings,
                   iterOrders, fsVars, opVars>>

\* dirEnts.Lookup from e, ok := de.m[name] on: not found, or the inode of
\* the dirEnt is handed to its lookupNode; the lookupNode of rootfs goes on
\* to open an archive, the one of the README file returns at once
DirEntsLookupBody(w) ==
    LET name == rootReq[w].name IN
    /\ pc[w] = "body"
    /\ rootReq[w].op = "Lookup"
    /\ IF name \notin deM.names
       THEN /\ rootLookupResults' = rootLookupResults \cup {<<name, "ENOENT">>}
            /\ UNCHANGED allocVars
       ELSE LET r == InodeAlone(lazyV[name], atomicInodeIncr) IN
            /\ lazyV' = [lazyV EXCEPT ![name] = r.val]
            /\ atomicInodeIncr' = r.counter
            /\ drawn' = drawn + (IF lazyV[name] = 0 THEN 1 ELSE 0)
            /\ rootLookupResults' = rootLookupResults \cup {<<name, "lookupNode">>}
    /\ pc' = [pc EXCEPT ![w] = IF name = "rootfs" THEN "lookupNode"
                               ELSE "unlock"]
    /\ UNCHANGED <<mu, callSlot, v, ncalls, returned, dirVars, fsVars,
                   xattrVars, readVars, initOnce, deM, doInitRuns, slowPaths,
                   rootReq, extVars>>

\* the lookupNode of rootfs, called from dirEnts.Lookup before its deferred
\* Unlock: layerDebugRoot.Lookup opens the archive file, asks for its size
\* and has stargz.Open read its table of contents
LookupNodeArchive(w) ==
    /\ pc[w] = "lookupNode"
    /\ pc' = [pc EXCEPT ![w] = "unlock"]
    /\ UNCHANGED <<allocVars, mu, callSlot, v, ncalls, returned, dirVars,
                   fsVars, opVars>>

\* the deferred de.mu.Unlock(); the request is over
UnlockDe(w) ==
    /\ pc[w] = "unlock"
    /\ mu = w
    /\ mu' = 0
    /\ pc' = [pc EXCEPT ![w] = "idle"]
    /\ rootReq' = [rootReq EXCEPT ![w] = [op |-> "", name |-> ""]]
    /\ UNCHANGED <<allocVars, callSlot, v, ncalls, returned, dirVars, fsVars,
                   xattrVars, readVars, initOnce, deM, doInitRuns, slowPaths,
                   rootLookupResults, extVars>>

InitRootSpec ==
    /\ InitAlloc /\ InitWorkers /\ InitDirIdle /\ InitFSIdle
    /\ InitXattrIdle /\ InitReadIdle /\ InitRoot /\ InitExtIdle

NextRoot ==
    \/ RootAttr
    \/ \E w \in Workers : StartDirEntsReadDirAll(w)
    \/ \E w \in Workers, name \in RootLookupNames : StartDirEntsLookup(w, name)
    \/ \E w \in Workers : OnceLoad(w)
    \/ \E w \in Workers : OnceDoSlow(w)
    \/ \E w \in Workers : DoInitMake(w)
    \/ \E w \in Workers : DoInitChildren(w)
    \/ \E w \in Workers : LockDe(w)
    \/ \E w \in Workers : DirEntsReadDirAllBody(w)
    \/ \E w \in Workers : DirEntsLookupBody(w)
    \/ \E w \in Workers : LookupNodeArchive(w)
    \/ \E w \in Workers : UnlockDe(w)

\* concurrent listings of and lookups under the root, from the first access
SpecRoot == InitRootSpec /\ [][NextRoot]_vars

----------------------------------------------------------------------------
(* Single requests on one content node: node.Open, node.Readlink,          *)
(* node.Attr, and whiteout.Attr on a whiteout of the same entry.           *)

\* TOCEntry.NumLink values: small ones and ones wider than 32 bits
NumLinks == {0, 1, 2, Uint32Modulus, Uint32Modulus + 2}

\* TOCEntry.LinkName values
LinkNames == {"", "a"}

\* errors of Reader.OpenFile; "" is success
OpenFileErrs == {"", "ENOENT"}

\* Reader.OpenFile: a section reader bound to the entry, or the error
OpenFile(te, openFileErr) ==
    IF openFileErr # "" THEN [sr |-> <<>>, err |-> openFileErr]
    ELSE [sr |-> <<te.ptr>>, err |-> ""]

\* a new nodeHandle: the fields the composite literal leaves out are zero
NewNodeHandle(isDir) ==
    [isDir |-> isDir, sr |-> <<>>, lastChunkOff |-> 0, lastChunkSize |-> 0,
     lastChunk |-> <<>>]

\* node.Open that hands out the handle when OpenFile failed
nodeOpen_keephandle(te, dir, openFileErr) ==
    LET h == NewNodeHandle(dir)
        of == OpenFile(te, openFileErr) IN
    IF dir THEN [handle |-> <<h>>, err |-> ""]
    ELSE [handle |-> <<[h EXCEPT !.sr = of.sr]>>, err |-> of.err]

\* what node.Open returns: <<h>> or, for nil, <<>>
nodeOpen(te, dir, openFileErr) ==
    LET h == NewNodeHandle(dir)
        of == OpenFile(te, openFileErr) IN
    IF dir THEN [handle |-> <<h>>, err |-> ""]
    ELSE IF of.err # "" THEN [handle |-> <<>>, err |-> of.err]
    ELSE [handle |-> <<[h EXCEPT !.sr = of.sr]>>, err |-> ""]

\* what no request on the node touches
nodeOpFrame ==
    <<allocVars, workerVars, dirVars, fsVars, xattrVars, readVars, rootVars,
      lost, lookupVars, readerVars, mainVars, moreVars>>

\* node.Open
OpenReq(dir, openFileErr) ==
    LET r == nodeOpen(nodeTe, dir, openFileErr) IN
    /\ nodeOp' = [NoNodeOp EXCEPT !.op = "Open", !.dir = dir,
                                  !.openFileErr = openFileErr,
                                  !.handle = r.handle, !.err = r.err]
    /\ UNCHANGED <<nodeTe, nodeOpFrame>>

\* node.Readlink
ReadlinkReq ==
    LET r == nodeReadlink(nodeTe) IN
    /\ nodeOp' = [NoNodeOp EXCEPT !.op = "Readlink", !.target = r.target,
                                  !.err = r.err]
    /\ UNCHANGED <<nodeTe, nodeOpFrame>>

\* node.Attr
AttrReq ==
    /\ nodeOp' = [NoNodeOp EXCEPT !.op = "Attr",
                                  !.Nlink = nodeAttr(nodeTe).Nlink]
    /\ UNCHANGED <<nodeTe, nodeOpFrame>>

\* whiteout.Attr
WhiteoutAttrReq ==
    /\ nodeOp' = [NoNodeOp EXCEPT !.op = "WhiteoutAttr",
                                  !.Nlink = whiteoutAttr(nodeTe).Nlink]
    /\ UNCHANGED <<nodeTe, nodeOpFrame>>

\* a content node over an entry of any type, link count and link name
InitNodeOp ==
    /\ nodeTe \in [Type : EntryTypes, NumLink : NumLinks,
                    LinkName : LinkNames, ptr : {EntryAddr(0, 1)}]
    /\ nodeOp = NoNodeOp

InitNodeSpec ==
    /\ InitAlloc /\ InitWorkers /\ InitDirIdle /\ InitFSIdle
    /\ InitXattrIdle /\ InitReadIdle /\ InitRoot /\ InitNodeOp /\ InitNoLost
    /\ InitNodeLookup /\ InitReaders /\ InitMainIdle /\ InitMoreIdle

NextNode ==
    \/ \E dir \in BOOLEAN, openFileErr \in OpenFileErrs :
           OpenReq(dir, openFileErr)
    \/ ReadlinkReq
    \/ AttrReq
    \/ WhiteoutAttrReq

\* open, readlink and attr requests on one node
SpecNode == InitNodeSpec /\ [][NextNode]_vars

----------------------------------------------------------------------------
(* Concurrent node.Lookup calls under one content node, the node of the    *)
(* archive's root entry: the steps of one call, all under n.mu.            *)

\* the names the workers look up: a file, a whiteout, and a missing name
ConcurrentLookupNames == {"a", "b", "x"}

\* the entry of the node the workers look names up under
ParentTe == 1

\* a mutex that never blocks
Locked_never(m) == FALSE

\* whether sync.Mutex m is held
Locked(m) == m # 0

\* what no step of node.Lookup touches
lookupFrame ==
    <<allocVars, mu, callSlot, v, returned, dirVars, fsVars, xattrVars,
      readVars, rootVars, nodeOpVars, lost, readerVars, mainVars,
      moreVars>>

\* a request worker enters node.Lookup(name)
StartNodeLookup(w, name) ==
    /\ pc[w] = "idle"
    /\ Started < MaxCalls
    /\ pc' = [pc EXCEPT ![w] = "nLock"]
    /\ ncalls' = [ncalls EXCEPT ![w] = @ + 1]
    /\ lookupReq' = [lookupReq EXCEPT ![w] = [NoLookup EXCEPT !.name = name]]
    /\ UNCHANGED <<nodeMu, nodeChild, childObjs, lookupReturns, lookupFrame>>

\* n.mu.Lock()
NodeLock(w) ==
    /\ pc[w] = "nLock"
    /\ ~Locked(nodeMu)
    /\ nodeMu' = w
    /\ pc' = [pc EXCEPT ![w] = "nCached"]
    /\ UNCHANGED <<ncalls, nodeChild, childObjs, lookupReq, lookupReturns,
                   lookupFrame>>

\* if c, ok := n.child[name]; ok { return c, nil }
NodeCached(w) ==
    LET name == lookupReq[w].name IN
    /\ pc[w] = "nCached"
    /\ IF name \in DOMAIN nodeChild
       THEN /\ lookupReq' = [lookupReq EXCEPT ![w].child = nodeChild[name]]
            /\ pc' = [pc EXCEPT ![w] = "nUnlock"]
       ELSE /\ pc' = [pc EXCEPT ![w] = "nResolve"]
            /\ UNCHANGED lookupReq
    /\ UNCHANGED <<ncalls, nodeMu, nodeChild, childObjs, lookupReturns,
                   lookupFrame>>

\* the rest of the body: the prefix test, LookupChild, and the new whiteout
\* or node stored in n.child
NodeResolve(w) ==
    LET name == lookupReq[w].name
        e == LookupChild(ParentTe, name)
        we == LookupChild(ParentTe, whiteoutPrefix \o name)
        new == Len(childObjs) + 1
        obj == IF e = 0
               THEN [kind |-> "whiteout", te |-> we, opaque |-> FALSE,
                     name |-> name]
               ELSE [kind |-> "node", te |-> e, name |-> name,
                     opaque |-> LookupChild(e, whiteoutOpaqueDir) # 0]
    IN  /\ pc[w] = "nResolve"
        /\ pc' = [pc EXCEPT ![w] = "nUnlock"]
        /\ IF HasPrefix(name, whiteoutPrefix) \/ (e = 0 /\ we = 0)
           THEN /\ lookupReq' = [lookupReq EXCEPT ![w].err = "ENOENT"]
                /\ UNCHANGED <<nodeChild, childObjs>>
           ELSE /\ childObjs' = Append(childObjs, obj)
                /\ nodeChild' = (name :> new) @@ nodeChild
                /\ lookupReq' = [lookupReq EXCEPT ![w].child = new]
        /\ UNCHANGED <<ncalls, nodeMu, lookupReturns, lookupFrame>>

\* the deferred n.mu.Unlock(), and the return
NodeUnlock(w) ==
    /\ pc[w] = "nUnlock"
    /\ nodeMu' = 0
    /\ lookupReturns' = lookupReturns \cup
           {<<lookupReq[w].name, lookupReq[w].child, lookupReq[w].err>>}
    /\ pc' = [pc EXCEPT ![w] = "idle"]
    /\ UNCHANGED <<ncalls, nodeChild, childObjs, lookupReq, lookupFrame>>

InitLookupSpec ==
    /\ InitAlloc /\ InitWorkers /\ InitDirIdle /\ InitFSIdle
    /\ InitXattrIdle /\ InitReadIdle /\ InitRoot /\ InitExtIdle

NextLookup ==
    \/ \E w \in Workers, name \in ConcurrentLookupNames :
           StartNodeLookup(w, name)
    \/ \E w \in Workers : NodeLock(w)
    \/ \E w \in Workers : NodeCached(w)
    \/ \E w \in Workers : NodeResolve(w)
    \/ \E w \in Workers : NodeUnlock(w)

\* concurrent lookups under one content node
SpecLookup == InitLookupSpec /\ [][NextLookup]_vars

----------------------------------------------------------------------------
(* Concurrent nodeHandle.Read calls on one handle: the loop of Read and    *)
(* the statements of chunkData, one step each. Two requests at a time are  *)
(* enough for every race on the three cache fields.                        *)

\* the chunks the table of contents may name for a file of `size` bytes,
\* chunks of no bytes among them
AnyChunkRanges(size) ==
    {c \in [ChunkOffset : 0 .. size, ChunkSize : 0 .. size] :
        c.ChunkOffset + c.ChunkSize <= size}

\* what no step of nodeHandle.Read touches
readerFrame ==
    <<allocVars, workerVars, dirVars, fsVars, xattrVars, fileSize, chunks,
      lastRead, rootVars, nodeOpVars, lost, lookupVars, mainVars,
      moreVars>>

\* Read returns: err, or resp.Data[:nr]
ReadReturn(w, err) ==
    rdr' = [rdr EXCEPT ![w] =
               [NoReader EXCEPT !.offset = rdr[w].offset,
                                !.size = rdr[w].size, !.err = err,
                                !.data = IF err = "" THEN rdr[w].data
                                         ELSE <<>>]]

\* a request enters nodeHandle.Read
StartRead(w, offset, size) ==
    /\ rdr[w].pc = "idle"
    /\ rdr' = [rdr EXCEPT ![w] = [NoReader EXCEPT !.pc = "rLoop",
                                                  !.offset = offset,
                                                  !.size = size]]
    /\ UNCHANGED <<hMu, lastChunkOff, lastChunkSize, lastChunk,
                   stored, readerFrame>>

\* for nr < req.Size { ce, ok := ChunkEntryForOffset(...); if !ok { break }
ReadIter(w) ==
    LET nr == Len(rdr[w].data)
        found == ChunkEntryForOffset(rdr[w].offset + nr)
    IN  /\ rdr[w].pc = "rLoop"
        /\ IF ~MoreWanted(nr, rdr[w].size) \/ ~found.ok
           THEN ReadReturn(w, "")
           ELSE rdr' = [rdr EXCEPT ![w].ce = found.ce, ![w].pc = "cdCheck"]
        /\ UNCHANGED <<hMu, lastChunkOff, lastChunkSize, lastChunk,
                       stored, readerFrame>>

\* chunkData: h.mu.Lock(), the test of the cached key, and h.mu.Unlock()
\* either deferred behind return h.lastChunk or at once
ChunkCheck(w) ==
    /\ rdr[w].pc = "cdCheck"
    /\ ~Locked(hMu)
    /\ IF /\ lastChunkOff = rdr[w].ce.ChunkOffset
          /\ lastChunkSize = rdr[w].ce.ChunkSize
       THEN rdr' = [rdr EXCEPT ![w].buf = lastChunk, ![w].pc = "rCopy"]
       ELSE rdr' = [rdr EXCEPT ![w].pc = "cdReadAt"]
    /\ UNCHANGED <<hMu, lastChunkOff, lastChunkSize, lastChunk,
                   stored, readerFrame>>

\* a chunkData that stores and hands out the buffer whatever ReadAt said; a
\* fetch the storage fails leaves the buffer as make gave it
ChunkReadAt_store(w, ioFails) ==
    LET r == ReadAt(rdr[w].ce.ChunkOffset, rdr[w].ce.ChunkSize)
        buf == IF ioFails THEN [i \in 1 .. rdr[w].ce.ChunkSize |-> 0]
               ELSE r.buf
    IN  /\ rdr[w].pc = "cdReadAt"
        /\ rdr' = [rdr EXCEPT ![w].buf = buf, ![w].pc = "cdStoreOff"]
        /\ UNCHANGED <<hMu, lastChunkOff, lastChunkSize, lastChunk,
                       stored, readerFrame>>

\* chunkData: buf := make([]byte, size); n, err := h.sr.ReadAt(buf, offset),
\* with h.mu not held; an error is returned by chunkData and then by Read
ChunkReadAt(w, ioFails) ==
    LET r == ReadAt(rdr[w].ce.ChunkOffset, rdr[w].ce.ChunkSize)
        err == IF ioFails THEN "EIO" ELSE r.err
    IN  /\ rdr[w].pc = "cdReadAt"
        /\ IF err # ""
           THEN ReadReturn(w, err)
           ELSE rdr' = [rdr EXCEPT ![w].buf = r.buf, ![w].pc = "cdStoreOff"]
        /\ UNCHANGED <<hMu, lastChunkOff, lastChunkSize, lastChunk,
                       stored, readerFrame>>

\* chunkData: h.mu.Lock(); h.lastChunkOff = offset
StoreOff(w) ==
    /\ rdr[w].pc = "cdStoreOff"
    /\ ~Locked(hMu)
    /\ hMu' = w
    /\ lastChunkOff' = rdr[w].ce.ChunkOffset
    /\ stored' = TRUE
    /\ rdr' = [rdr EXCEPT ![w].pc = "cdStoreSize"]
    /\ UNCHANGED <<lastChunkSize, lastChunk, readerFrame>>

\* chunkData: h.lastChunkSize = size
StoreSize(w) ==
    /\ rdr[w].pc = "cdStoreSize"
    /\ lastChunkSize' = rdr[w].ce.ChunkSize
    /\ rdr' = [rdr EXCEPT ![w].pc = "cdStoreChunk"]
    /\ UNCHANGED <<hMu, lastChunkOff, lastChunk, stored, readerFrame>>

\* chunkData: h.lastChunk = buf; h.mu.Unlock(); return buf, nil
StoreChunk(w) ==
    /\ rdr[w].pc = "cdStoreChunk"
    /\ lastChunk' = rdr[w].buf
    /\ hMu' = 0
    /\ rdr' = [rdr EXCEPT ![w].pc = "rCopy"]
    /\ UNCHANGED <<lastChunkOff, lastChunkSize, stored, readerFrame>>

\* n := copy(resp.Data[nr:], chunkData[offset+int64(nr)-ce.ChunkOffset:]);
\* nr += n; a lower slice bound beyond the length of chunkData panics
ReadCopy(w) ==
    LET nr == Len(rdr[w].data)
        from == rdr[w].offset + nr - rdr[w].ce.ChunkOffset
    IN  /\ rdr[w].pc = "rCopy"
        /\ IF from > Len(rdr[w].buf)
           THEN ReadReturn(w, "panic")
           ELSE rdr' = [rdr EXCEPT
                    ![w].data = @ \o CopyChunk(rdr[w].size - nr, rdr[w].buf,
                                               from),
                    ![w].pc = "rLoop"]
        /\ UNCHANGED <<hMu, lastChunkOff, lastChunkSize, lastChunk,
                       stored, readerFrame>>

\* node.Open of a regular file of MaxChunkedSize bytes: no two chunks of its
\* table of contents stand for the same offset
InitHandle ==
    /\ fileSize = MaxChunkedSize
    /\ chunks \in SUBSET AnyChunkRanges(fileSize)
    /\ \A c, d \in chunks : \A o \in 0 .. fileSize :
           (c # d /\ (Covers(c, o) \/ EmptyAt(c, o)))
               => ~(Covers(d, o) \/ EmptyAt(d, o))
    /\ lastChunkOff = 0
    /\ lastChunkSize = 0
    /\ lastChunk = <<>>
    /\ lastRead = NoRead

InitReadersSpec ==
    /\ InitAlloc /\ InitWorkers /\ InitDirIdle /\ InitFSIdle
    /\ InitXattrIdle /\ InitHandle /\ InitRoot
    /\ InitNodeOpIdle /\ InitNoLost /\ InitNodeLookup /\ InitReaders
    /\ InitMainIdle /\ InitMoreIdle

NextReaders ==
    \/ \E w \in ReaderIds, offset \in 0 .. MaxChunkedSize - 1,
          size \in {1, MaxChunkedSize} : StartRead(w, offset, size)
    \/ \E w \in ReaderIds : ReadIter(w)
    \/ \E w \in ReaderIds : ChunkCheck(w)
    \/ \E w \in ReaderIds, ioFails \in BOOLEAN : ChunkReadAt(w, ioFails)
    \/ \E w \in ReaderIds : StoreOff(w)
    \/ \E w \in ReaderIds : StoreSize(w)
    \/ \E w \in ReaderIds : StoreChunk(w)
    \/ \E w \in ReaderIds : ReadCopy(w)

\* concurrent read requests on one open file handle
SpecReaders == InitReadersSpec /\ [][NextReaders]_vars

----------------------------------------------------------------------------
(* Listings and lookups on one mounted tree: the root and the content      *)
(* nodes of the archives are listed and looked up in any order.            *)

\* the children of the entry of node object n, as ForeachChild gives them
ChildrenOf(n) ==
    LET idxs == {i \in 1 .. Len(Archive) : Archive[i].parent = nodes[n].te}
    IN  [name \in {Archive[i].base : i \in idxs} |->
            Ent(nodes[n].reader, LookupChild(nodes[n].te, name))]

\* the orders in which the children are visited when a tree is listed: by
\* name, upwards or downwards
TreeOrders(names) ==
    {o \in Orders(names) :
        \/ IsAscending(o)
        \/ \A i, j \in 1 .. Len(o) : i < j => StrLess(o[j], o[i])}

\* nodeHandle.ReadDirAll on a handle of the directory node n; the result is
\* kept with the node it was asked of
TreeReadDirAll(n) ==
    /\ n \in ContentNodes
    /\ Archive[nodes[n].te].Type = "dir"
    /\ \E order \in TreeOrders(DOMAIN ChildrenOf(n)) :
       \E worder \in TreeOrders(DOMAIN WhiteoutsOf(ChildrenOf(n), order)) :
           listings' = listings \cup
               {[dir |-> n, ents |-> ReadDirAll(ChildrenOf(n), order, worder)]}
    /\ UNCHANGED <<allocVars, workerVars, dirChildren, iterOrders,
                   rootListings, fsVars, opVars>>

\* the names looked up in a tree that is also listed
TreeLookupNames == {"a", "b", "d"}

NextTree ==
    \/ RootReadDirAll
    \/ RootLookupStatic
    \/ \E region \in Regions : RootLookupRootfs("ok", region)
    \/ \E n \in 1 .. Len(nodes), name \in TreeLookupNames : NodeLookup(n, name)
    \/ \E n \in 1 .. Len(nodes) : TreeReadDirAll(n)

\* listings and lookups on the mounted tree, one request at a time
SpecTree == InitFS /\ [][NextTree]_vars

----------------------------------------------------------------------------
(* The caches of several nodes and handles: node objects, their child maps *)
(* and the open handles are objects of a heap, and requests on them run    *)
(* their statements interleaved.                                           *)

CacheWorkers == {1, 2}

\* the names looked up: a file, a bare whiteout, a directory
CacheLookupNames == {"a", "b", "d"}

\* a child map that is the map of the first node
MakeMap_shared(hp) == 1

\* child: make(map[string]fspkg.Node): a map object of its own
MakeMap(hp) == Len(hp.maps) + 1

\* &node{te: e, child: make(...)} and &whiteout{e}
NodeObj(kind, te, child) == [kind |-> kind, te |-> te, child |-> child, mu |-> 0]

\* &nodeHandle{n: n, isDir: false, sr: sr}: the cache fields are zero
HandleObj(n) ==
    [n |-> n, mu |-> 0, lastChunkOff |-> 0, lastChunkSize |-> 0,
     lastChunk |-> <<>>]

\* what no request on a node or a handle of the heap touches
cacheFrame ==
    <<allocVars, workerVars, dirVars, fsVars, xattrVars, readVars, rootVars,
      nodeOpVars, lost, lookupVars, readerVars, mainVars, dbVars>>

\* the directories among the node objects
DirNodes ==
    {n \in 1 .. Len(heap.nodes) :
        heap.nodes[n].kind = "node" /\ Archive[heap.nodes[n].te].Type = "dir"}

\* a request enters node.Lookup of the directory node n
BeginLookup(w, n, name) ==
    /\ task[w].pc = "idle"
    /\ n \in DirNodes
    /\ task' = [task EXCEPT ![w] = [NoTask EXCEPT !.pc = "lLock", !.on = n,
                                                  !.name = name]]
    /\ UNCHANGED <<heap, cacheFrame>>

\* n.mu.Lock()
LockNode(w) ==
    /\ task[w].pc = "lLock"
    /\ ~Locked(heap.nodes[task[w].on].mu)
    /\ heap' = [heap EXCEPT !.nodes[task[w].on].mu = w]
    /\ task' = [task EXCEPT ![w].pc = "lBody"]
    /\ UNCHANGED cacheFrame

\* the body of node.Lookup under n.mu: the cached child, ENOENT, or a new
\* whiteout or node that is put into n.child
LookupUnderLock(w) ==
    LET n == task[w].on
        name == task[w].name
        nd == heap.nodes[n]
        e == LookupChild(nd.te, name)
        we == LookupChild(nd.te, whiteoutPrefix \o name)
        new == Len(heap.nodes) + 1
    IN  /\ task[w].pc = "lBody"
        /\ IF \/ name \in DOMAIN heap.maps[nd.child]
              \/ HasPrefix(name, whiteoutPrefix)
              \/ (e = 0 /\ we = 0)
           THEN heap' = heap
           ELSE IF e = 0
           THEN heap' = [heap EXCEPT
                    !.nodes = Append(@, NodeObj("whiteout", we, 0)),
                    !.maps[nd.child] = (name :> new) @@ @]
           ELSE heap' = [heap EXCEPT
                    !.nodes = Append(@, NodeObj("node", e, MakeMap(heap))),
                    !.maps = Append([@ EXCEPT ![nd.child] = (name :> new) @@ @],
                                    <<>>)]
        /\ task' = [task EXCEPT ![w].pc = "lUnlock"]
        /\ UNCHANGED cacheFrame

\* the deferred n.mu.Unlock() and the return
UnlockNode(w) ==
    /\ task[w].pc = "lUnlock"
    /\ heap' = [heap EXCEPT !.nodes[task[w].on].mu = 0]
    /\ task' = [task EXCEPT ![w] = NoTask]
    /\ UNCHANGED cacheFrame

\* a request for one byte enters nodeHandle.Read of the handle h and finds
\* the chunk of its offset
BeginRead(w, h, offset) ==
    LET found == ChunkEntryForOffset(offset)
    IN  /\ task[w].pc = "idle"
        /\ h \in 1 .. Len(heap.handles)
        /\ found.ok
        /\ task' = [task EXCEPT ![w] = [NoTask EXCEPT !.pc = "cCheck",
                                                      !.on = h,
                                                      !.ce = found.ce]]
        /\ UNCHANGED <<heap, cacheFrame>>

\* chunkData: the test of the key of h under h.mu
CheckSlot(w) ==
    LET h == heap.handles[task[w].on]
    IN  /\ task[w].pc = "cCheck"
        /\ ~Locked(h.mu)
        /\ IF /\ h.lastChunkOff = task[w].ce.ChunkOffset
              /\ h.lastChunkSize = task[w].ce.ChunkSize
           THEN task' = [task EXCEPT ![w].buf = h.lastChunk,
                                     ![w].pc = "rCopy"]
           ELSE task' = [task EXCEPT ![w].pc = "cReadAt"]
        /\ UNCHANGED <<heap, cacheFrame>>

\* chunkData: buf := make([]byte, size); h.sr.ReadAt(buf, offset); an error
\* ends the request
FetchChunk(w, ioFails) ==
    LET r == ReadAt(task[w].ce.ChunkOffset, task[w].ce.ChunkSize)
    IN  /\ task[w].pc = "cReadAt"
        /\ IF ioFails \/ r.err # ""
           THEN task' = [task EXCEPT ![w] = NoTask]
           ELSE task' = [task EXCEPT ![w].buf = r.buf, ![w].pc = "cStore"]
        /\ UNCHANGED <<heap, cacheFrame>>

\* chunkData: the store of the three cache fields of h under h.mu
StoreSlot(w) ==
    LET h == task[w].on
    IN  /\ task[w].pc = "cStore"
        /\ ~Locked(heap.handles[h].mu)
        /\ heap' = [heap EXCEPT
                        !.handles[h].lastChunkOff = task[w].ce.ChunkOffset,
                        !.handles[h].lastChunkSize = task[w].ce.ChunkSize,
                        !.handles[h].lastChunk = task[w].buf]
        /\ task' = [task EXCEPT ![w].pc = "rCopy"]
        /\ UNCHANGED cacheFrame

\* the copy into resp.Data and the return of Read
CopyOut(w) ==
    /\ task[w].pc = "rCopy"
    /\ task' = [task EXCEPT ![w] = NoTask]
    /\ UNCHANGED <<heap, cacheFrame>>

\* the offsets of the file that is read
ReadOffsets == {0, 1}

\* the heap after the Lookup of rootfs, the Lookup of the file a under the
\* root content node, and two calls of node.Open on the file
InitCaches ==
    /\ heap = [nodes |-> <<NodeObj("node", 1, 1),
                           NodeObj("node", LookupChild(1, "a"), 2)>>,
               maps |-> <<("a" :> 2), <<>> >>,
               handles |-> <<HandleObj(2), HandleObj(2)>>]
    /\ task = [w \in CacheWorkers |-> NoTask]

\* the file a: one byte for every offset, each a chunk of its own
InitChunkedFile ==
    /\ fileSize = Cardinality(ReadOffsets)
    /\ chunks = {[ChunkOffset |-> o, ChunkSize |-> 1] : o \in ReadOffsets}
    /\ lastChunkOff = 0
    /\ lastChunkSize = 0
    /\ lastChunk = <<>>
    /\ lastRead = NoRead

InitCachesSpec ==
    /\ InitAlloc /\ InitWorkers /\ InitDirIdle /\ InitFSIdle
    /\ InitXattrIdle /\ InitChunkedFile /\ InitRoot
    /\ InitNodeOpIdle /\ InitNoLost /\ InitNodeLookup /\ InitReaders
    /\ InitMainIdle /\ InitCaches /\ InitDbIdle

NextCaches ==
    \/ \E w \in CacheWorkers, n \in 1 .. Len(heap.nodes),
          name \in CacheLookupNames : BeginLookup(w, n, name)
    \/ \E w \in CacheWorkers : LockNode(w)
    \/ \E w \in CacheWorkers : LookupUnderLock(w)
    \/ \E w \in CacheWorkers : UnlockNode(w)
    \/ \E w \in CacheWorkers, h \in 1 .. Len(heap.handles),
          offset \in ReadOffsets : BeginRead(w, h, offset)
    \/ \E w \in CacheWorkers : CheckSlot(w)
    \/ \E w \in CacheWorkers, ioFails \in BOOLEAN : FetchChunk(w, ioFails)
    \/ \E w \in CacheWorkers : StoreSlot(w)
    \/ \E w \in CacheWorkers : CopyOut(w)

\* concurrent lookups and reads on several nodes and handles
SpecCaches == InitCachesSpec /\ [][NextCaches]_vars

----------------------------------------------------------------------------
(* The login of the web application: handleLoginVerify and the database    *)
(* calls it makes, one SQL statement a step, for concurrent requests.      *)

LoginWorkers == {1, 2}

\* the tokens a request may bring: two links mailed to one address, a link
\* of long ago, a token that no link has, and no token
LoginTokens == {"t1", "t2", "old", "zz", ""}

\* what no step of a login touches
loginFrame ==
    <<allocVars, workerVars, dirVars, fsVars, xattrVars, readVars, rootVars,
      nodeOpVars, lost, lookupVars, readerVars, mainVars, cacheVars>>

\* email TEXT UNIQUE NOT NULL: whether an INSERT of the email fails
UniqueViolated(users, email) == \E i \in 1 .. Len(users) : users[i] = email

\* SELECT id FROM users WHERE email = ?: the row id, 0 for sql.ErrNoRows
UserIdOf(users, email) ==
    IF \E i \in 1 .. Len(users) : users[i] = email
    THEN CHOOSE i \in 1 .. Len(users) : users[i] = email
    ELSE 0

\* the response of handleLoginVerify: a redirect, with or without a cookie
Respond(w, status) ==
    login' = [login EXCEPT ![w].pc = "done", ![w].status = status]

\* token := r.URL.Query().Get("token"); an empty one is refused at once
BeginLoginVerify(w, token) ==
    /\ login[w].pc = "idle"
    /\ IF token = ""
       THEN Respond(w, "invalid_token")
       ELSE login' = [login EXCEPT ![w].pc = "vSelect", ![w].token = token]
    /\ UNCHANGED <<db, clock, loginFrame>>

\* VerifyMagicLink: SELECT email, expires_at, used FROM magic_links WHERE
\* token = ?; sql.ErrNoRows gives "invalid magic link"
VerifySelect(w) ==
    LET t == login[w].token
    IN  /\ login[w].pc = "vSelect"
        /\ IF t \notin DOMAIN db.magic_links
           THEN Respond(w, "invalid_token")
           ELSE login' = [login EXCEPT ![w].pc = "vCheck",
                              ![w].email = db.magic_links[t].email,
                              ![w].expiresAt = db.magic_links[t].expires_at,
                              ![w].used = db.magic_links[t].used]
        /\ UNCHANGED <<db, clock, loginFrame>>

\* VerifyMagicLink: time.Now().After(expiresAt), then if used, both on the
\* values the SELECT gave
VerifyCheck(w) ==
    /\ login[w].pc = "vCheck"
    /\ IF clock > login[w].expiresAt \/ login[w].used
       THEN Respond(w, "invalid_token")
       ELSE login' = [login EXCEPT ![w].pc = "vUpdate"]
    /\ UNCHANGED <<db, clock, loginFrame>>

\* VerifyMagicLink: UPDATE magic_links SET used = 1 WHERE token = ?;
\* return email, nil
VerifyUpdate(w) ==
    /\ login[w].pc = "vUpdate"
    /\ db' = [db EXCEPT !.magic_links[login[w].token].used = TRUE]
    /\ login' = [login EXCEPT ![w].pc = "uSelect", ![w].verified = TRUE]
    /\ UNCHANGED <<clock, loginFrame>>

\* CreateOrGetUser: SELECT id, email, created_at FROM users WHERE email = ?
VerifyUserSelect(w) ==
    LET id == UserIdOf(db.users, login[w].email)
    IN  /\ login[w].pc = "uSelect"
        /\ IF id = 0
           THEN login' = [login EXCEPT ![w].pc = "uInsert"]
           ELSE login' = [login EXCEPT ![w].pc = "sInsert", ![w].userID = id,
                                       ![w].userErr = "none"]
        /\ UNCHANGED <<db, clock, loginFrame>>

\* CreateOrGetUser: INSERT INTO users (email) VALUES (?) and LastInsertId;
\* the handler answers server_error when the INSERT fails
VerifyUserInsert(w) ==
    /\ login[w].pc = "uInsert"
    /\ IF UniqueViolated(db.users, login[w].email)
       THEN /\ login' = [login EXCEPT ![w].pc = "done",
                               ![w].status = "server_error",
                               ![w].userErr = "failed to create user"]
            /\ UNCHANGED db
       ELSE /\ db' = [db EXCEPT !.users = Append(@, login[w].email)]
            /\ login' = [login EXCEPT ![w].pc = "sInsert",
                               ![w].userID = Len(db.users) + 1,
                               ![w].userErr = "none"]
    /\ UNCHANGED <<clock, loginFrame>>

\* CreateSession: INSERT INTO sessions (user_id, token, expires_at), then
\* the session cookie and the redirect to /
SessionInsert(w) ==
    /\ login[w].pc = "sInsert"
    /\ db' = [db EXCEPT !.sessions = Append(@, [user_id |-> login[w].userID,
                                                by |-> w])]
    /\ login' = [login EXCEPT ![w].pc = "done", ![w].status = "logged_in"]
    /\ UNCHANGED <<clock, loginFrame>>

\* time passes
Tick ==
    /\ clock < MaxClock
    /\ clock' = clock + 1
    /\ UNCHANGED <<db, login, loginFrame>>

\* the database after createTables and three calls of CreateMagicLink for
\* one address: one of them long ago, two of them open until the next tick
InitLogin ==
    /\ clock = 1
    /\ db = [magic_links |->
                 [t \in {"t1", "t2", "old"} |->
                     [email |-> "e", used |-> FALSE,
                      expires_at |-> IF t = "old" THEN 0 ELSE 1]],
             users |-> <<>>,
             sessions |-> <<>>]
    /\ login = [w \in LoginWorkers |-> NoLogin]

InitLoginSpec ==
    /\ InitAlloc /\ InitWorkers /\ InitDirIdle /\ InitFSIdle
    /\ InitXattrIdle /\ InitReadIdle /\ InitRoot
    /\ InitNodeOpIdle /\ InitNoLost /\ InitNodeLookup /\ InitReaders
    /\ InitMainIdle /\ InitCachesIdle /\ InitLogin

NextLogin ==
    \/ \E w \in LoginWorkers, token \in LoginTokens : BeginLoginVerify(w, token)
    \/ \E w \in LoginWorkers : VerifySelect(w)
    \/ \E w \in LoginWorkers : VerifyCheck(w)
    \/ \E w \in LoginWorkers : VerifyUpdate(w)
    \/ \E w \in LoginWorkers : VerifyUserSelect(w)
    \/ \E w \in LoginWorkers : VerifyUserInsert(w)
    \/ \E w \in LoginWorkers : SessionInsert(w)
    \/ Tick

\* concurrent requests to /login/verify
SpecLogin == InitLoginSpec /\ [][NextLogin]_vars

----------------------------------------------------------------------------
(* The process: main, its signal goroutine, and the signals, mount table   *)
(* and failures of its surroundings.                                       *)

\* the command lines: no argument, a mount point, or one argument too many
ArgLists == {<<>>, <<"/mnt">>, <<"/mnt", "x">>}

Signals == {"SIGINT", "SIGTERM"}

\* what no step of the process touches
mainFrame ==
    <<allocVars, workerVars, dirVars, fsVars, xattrVars, readVars, rootVars,
      nodeOpVars, lost, lookupVars, readerVars, moreVars>>

Running == proc.exit = "running"

\* os.Exit(code), also from log.Fatal: deferred calls do not run
Exit(code) == [proc EXCEPT !.exit = code, !.mainPc = "exited"]

\* flag.Parse and the choice of the mount point; usage and exit status 2 for
\* more than one argument
ParseArgs ==
    /\ Running /\ proc.mainPc = "start"
    /\ proc' = IF Len(env.args) > 1 THEN Exit("2")
               ELSE [proc EXCEPT
                        !.mainPc = "mount",
                        !.mntPoint = IF Len(env.args) = 1 THEN env.args[1]
                                     ELSE "/crfs"]
    /\ UNCHANGED <<env, mainFrame>>

\* c, err := fuse.Mount(...); if err != nil { log.Fatal(err) }; the two
\* defers
Mount(ok) ==
    /\ Running /\ proc.mainPc = "mount"
    /\ IF ok
       THEN /\ proc' = [proc EXCEPT !.mainPc = "notify"]
            /\ env' = [env EXCEPT !.mounted = TRUE]
       ELSE /\ proc' = Exit("1")
            /\ env' = [env EXCEPT !.events = @ \cup {"mountFailed"}]
    /\ UNCHANGED mainFrame

\* signal.Notify(ch, SIGINT, SIGTERM) and the start of the goroutine
Notify ==
    /\ Running /\ proc.mainPc = "notify"
    /\ proc' = [proc EXCEPT !.mainPc = "serve", !.notified = TRUE,
                            !.sigPc = "wait"]
    /\ UNCHANGED <<env, mainFrame>>

\* an interrupt or termination signal reaches the process: before
\* signal.Notify it ends the process at once; after, it is put in ch, or
\* dropped when ch is full
Signal(sig) ==
    /\ Running
    /\ env.signals < MaxSignals
    /\ env' = [env EXCEPT !.signals = @ + 1, !.events = @ \cup {"signal"}]
    /\ proc' = IF ~proc.notified THEN Exit("killed")
               ELSE IF proc.ch = <<>> THEN [proc EXCEPT !.ch = <<sig>>]
               ELSE proc
    /\ UNCHANGED mainFrame

\* <-ch in the goroutine
SigReceive ==
    /\ Running /\ proc.sigPc = "wait"
    /\ proc.ch # <<>>
    /\ proc' = [proc EXCEPT !.ch = <<>>, !.sigPc = "unmount"]
    /\ UNCHANGED <<env, mainFrame>>

\* _ = fuse.Unmount(mntPoint) in the goroutine; its error is dropped
SigUnmount(ok) ==
    /\ Running /\ proc.sigPc = "unmount"
    /\ proc' = [proc EXCEPT !.sigPc = "close"]
    /\ env' = [env EXCEPT !.mounted = IF ok THEN FALSE ELSE @]
    /\ UNCHANGED mainFrame

\* c.Close(); os.Exit(0) in the goroutine
SigExit ==
    /\ Running /\ proc.sigPc = "close"
    /\ proc' = Exit("0")
    /\ UNCHANGED <<env, mainFrame>>

\* err = fspkg.Serve(c, fs); if err != nil { log.Fatal(err) }
ServeFails ==
    /\ Running /\ proc.mainPc = "serve"
    /\ proc' = Exit("1")
    /\ env' = [env EXCEPT !.events = @ \cup {"serveFailed"}]
    /\ UNCHANGED mainFrame

\* Serve returns nil: the kernel has ended the session of a file system
\* that is no longer mounted
ServeReturns ==
    /\ Running /\ proc.mainPc = "serve"
    /\ ~env.mounted
    /\ proc' = [proc EXCEPT !.mainPc = "ready"]
    /\ UNCHANGED <<env, mainFrame>>

\* <-c.Ready; a mount error is fatal; else main returns, its deferred
\* Unmount and Close run, and the process ends with status 0
MainReturn(mountError) ==
    /\ Running /\ proc.mainPc = "ready"
    /\ IF mountError
       THEN /\ proc' = Exit("1")
            /\ env' = [env EXCEPT !.events = @ \cup {"mountFailed"}]
       ELSE /\ proc' = Exit("0")
            /\ UNCHANGED env
    /\ UNCHANGED mainFrame

\* the process is started with some command line
InitMain ==
    /\ proc = NoProc
    /\ env \in {[NoEnv EXCEPT !.args = a, !.fuseDebug = d] :
                   a \in ArgLists, d \in BOOLEAN}

InitMainSpec ==
    /\ InitAlloc /\ InitWorkers /\ InitDirIdle /\ InitFSIdle
    /\ InitXattrIdle /\ InitReadIdle /\ InitRoot
    /\ InitNodeOpIdle /\ InitNoLost /\ InitNodeLookup /\ InitReaders
    /\ InitMain /\ InitMoreIdle

NextMain ==
    \/ ParseArgs
    \/ \E ok \in BOOLEAN : Mount(ok)
    \/ Notify
    \/ \E sig \in Signals : Signal(sig)
    \/ SigReceive
    \/ \E ok \in BOOLEAN : SigUnmount(ok)
    \/ SigExit
    \/ ServeFails
    \/ ServeReturns
    \/ \E mountError \in BOOLEAN : MainReturn(mountError)

\* one run of the process
SpecMain == InitMainSpec /\ [][NextMain]_vars

----------------------------------------------------------------------------
(* C3, C4: the allocator *)

\* C3: for one lazyInode, every call of inode() returns the same value under
\* any interleaving of the callers, and a slot that holds a nonzero
\* identifier is never changed again.
C3_InodeIdempotent ==
    /\ [](\A a, b \in returned : a[1] = b[1] => a[2] = b[2])
    /\ [][\A s \in Slots : lazyV[s] # 0 => lazyV'[s] = lazyV[s]]_vars

\* two workers got the root's identifier, and a value drawn from the shared
\* counter was thrown away by the loser of the compare-and-swap
C3_Witness ==
    /\ \E a \in returned : a[1] = "root"
    /\ \A w \in Workers : pc[w] = "idle" /\ ncalls[w] >= 1
    /\ lazyV["rootfs"] = 0 /\ lazyV["README-crfs.txt"] = 0
    /\ drawn >= 2

\* C4: while fewer than 2^width identifiers have been drawn from the shared
\* counter, inode() never returns zero and leaves the slot nonzero.
C4_InodeNeverZero ==
    drawn < Uint32Modulus =>
        \A a \in returned : a[2] # 0 /\ lazyV[a[1]] # 0

\* every slot has been assigned and returned
C4_Witness ==
    /\ \A s \in Slots : \E a \in returned : a[1] = s
    /\ drawn < Uint32Modulus

----------------------------------------------------------------------------
(* C6 - C10: the merged directory listing *)

\* how many entries of listing l are named x
CountNamed(l, x) == Cardinality({i \in 1 .. Len(l) : l[i].Name = x})

\* the names a claim about "every name x" ranges over: the names of the
\* universe and what is left of them without the whiteout prefix
XNames ==
    NameUniverse \cup
    {StripPrefix(n) : n \in {m \in NameUniverse : HasPrefix(m, whiteoutPrefix)}}

\* C6: no entry of a merged listing has a name that begins with the
\* whiteout prefix, whatever the backing children are.
C6_NoWhiteoutPrefixListed ==
    \A l \in listings : \A i \in 1 .. Len(l) :
        ~HasPrefix(l[i].Name, whiteoutPrefix)

\* C7: no entry of a merged listing is named .wh..wh..opq, whatever the
\* backing children are.
C7_OpaqueMarkerHidden ==
    \A l \in listings : \A i \in 1 .. Len(l) : l[i].Name # whiteoutOpaqueDir

\* with .wh.x and no x among the children: one entry named x, a character
\* device
WhiteoutShown(l, x) ==
    (whiteoutPrefix \o x \in DOMAIN dirChildren /\ x \notin DOMAIN dirChildren)
    => /\ CountNamed(l, x) = 1
       /\ \A i \in 1 .. Len(l) : l[i].Name = x => l[i].Type = "DT_Char"

\* with both .wh.x and x among the children: one entry named x, the one of
\* the entry x
WhiteoutReplaced(l, x) ==
    (whiteoutPrefix \o x \in DOMAIN dirChildren /\ x \in DOMAIN dirChildren)
    => /\ CountNamed(l, x) = 1
       /\ \A i \in 1 .. Len(l) : l[i].Name = x =>
            /\ l[i].Inode = inodeOfEnt(dirChildren[x])
            /\ l[i].Type = direntType(dirChildren[x])

\* C8 as claimed: for every name x, .wh.x without x gives exactly one
\* character-device entry named x, and .wh.x with x gives exactly one entry
\* named x, the regular one.
C8_WhiteoutSynthesisAnyName ==
    \A l \in listings : \A x \in XNames :
        WhiteoutShown(l, x) /\ WhiteoutReplaced(l, x)

\* C8 as amended: the same for every name x that does not itself begin with
\* the whiteout prefix.
C8_WhiteoutSynthesis ==
    \A l \in listings :
    \A x \in {y \in XNames : ~HasPrefix(y, whiteoutPrefix)} :
        WhiteoutShown(l, x) /\ WhiteoutReplaced(l, x)

\* a listing of a directory that holds .wh.a together with a, and .wh.b
\* without b
C8_Witness ==
    /\ listings # {}
    /\ DOMAIN dirChildren = {".wh.a", "a", ".wh.b"}

\* the directory-entry type the listing is to show for an archive type
ExpectedDirentType(t) ==
    CASE t = "dir" -> "DT_Dir"
      [] t = "reg" -> "DT_File"
      [] t = "symlink" -> "DT_Link"
      [] t = "block" -> "DT_Block"
      [] t = "char" -> "DT_Char"
      [] t = "fifo" -> "DT_FIFO"
      [] OTHER -> "DT_Unknown"

\* the values the inode allocator has handed out so far
AllocatorIssued == 1 .. atomicInodeIncr

\* a child without the whiteout prefix is listed once, under its own name,
\* with the type mapped from its archive type
ListedOnceWithType(l, n) ==
    /\ CountNamed(l, n) = 1
    /\ \A i \in 1 .. Len(l) : l[i].Name = n =>
         l[i].Type = ExpectedDirentType(dirChildren[n].Type)

C10_ListingSorted ==
    /\ \A l \in listings \cup rootListings :
         \A i, j \in 1 .. Len(l) : i < j => ~StrLess(l[j].Name, l[i].Name)
    /\ Cardinality(listings) <= 1
    /\ Cardinality(rootListings) <= 1

\* a directory with three entries to show has been listed both with its
\* children met in ascending order and in another order, and so has the root
C10_Witness ==
    /\ iterOrders = {"ascending", "other"}
    /\ \E l \in listings : Len(l) >= 3
    /\ rootListings # {}

----------------------------------------------------------------------------
(* C1, C2, C5: identity of nodes and lookups *)

\* C1: all lookups of one name under one parent (the root is parent 0) that
\* gave a node gave nodes whose Attr reports the same inode number.
C1_IdentityStable ==
    \A a, b \in lookups : (a[1] = b[1] /\ a[2] = b[2]) => a[3] = b[3]

\* C2: any two distinct live nodes (the root, the nodes Lookup handed out)
\* report different inode numbers.
C2_InodeUnique ==
    /\ \A i, j \in 1 .. Len(nodes) : i # j => AttrInode(i) # AttrInode(j)
    /\ \A i \in 1 .. Len(nodes) :
         lazyV["root"] # 0 => AttrInode(i) # lazyV["root"]

\* C5: under every content node, whatever was looked up before, a name that
\* begins with .wh. is not found, and no such name is a key of a child cache.
C5_WhiteoutNameNotLookupable ==
    /\ \A n \in ContentNodes :
       \A name \in {m \in LookupNames : HasPrefix(m, whiteoutPrefix)} :
           NodeLookupResolve(n, name).res = "ENOENT"
    /\ \A n \in 1 .. Len(nodes) : \A name \in DOMAIN nodes[n].child :
           ~HasPrefix(name, whiteoutPrefix)
    /\ (lastLookup.parent \in ContentNodes
            /\ HasPrefix(lastLookup.name, whiteoutPrefix))
       => (lastLookup.err = "ENOENT" /\ lastLookup.inode = 0)

\* .wh.b was looked up under a node that had handed out the whiteout of b
C5_Witness ==
    /\ lastLookup.parent \in ContentNodes
    /\ lastLookup.name = ".wh.b"
    /\ "b" \in DOMAIN nodes[lastLookup.parent].child
    /\ nodes[nodes[lastLookup.parent].child["b"]].kind = "whiteout"

----------------------------------------------------------------------------
(* C11, C12: what a lookup under a content node resolves to *)

\* the names without the whiteout prefix that a content node is asked for
PlainLookupNames == {m \in LookupNames : ~HasPrefix(m, whiteoutPrefix)}

\* C11: under a content node, a name x without the whiteout prefix that is
\* not cached resolves to a content node of the child x when the entry has
\* one (also when .wh.x exists too), to a whiteout node (character device,
\* device 0/0, link count 1, size 0) that is cached under x when there is
\* only .wh.x, and to not-found when there is neither.
C11_LookupResolution ==
    /\ \A n \in ContentNodes :
       \A x \in PlainLookupNames \ DOMAIN nodes[n].child :
          LET e == LookupChild(nodes[n].te, x)
              we == LookupChild(nodes[n].te, whiteoutPrefix \o x)
              got == NodeLookupResolve(n, x)
          IN  /\ e # 0 => (got.res = "node" /\ got.te = e)
              /\ (e = 0 /\ we # 0) => (got.res = "whiteout" /\ got.te = we)
              /\ (e = 0 /\ we = 0) => got.res = "ENOENT"
    /\ \A n \in ContentNodes : \A x \in DOMAIN nodes[n].child :
          LET e == LookupChild(nodes[n].te, x)
              we == LookupChild(nodes[n].te, whiteoutPrefix \o x)
              c == nodes[n].child[x]
          IN  IF e # 0
              THEN nodes[c].kind = "node" /\ nodes[c].te = e
              ELSE /\ nodes[c].kind = "whiteout" /\ nodes[c].te = we /\ we # 0
                   /\ WhiteoutAttr(c).Mode = {"ModeDevice", "ModeCharDevice"}
                   /\ WhiteoutAttr(c).Rdev = 0
                   /\ WhiteoutAttr(c).Nlink = 1
                   /\ WhiteoutAttr(c).Size = 0
    /\ (lastLookup.parent \in ContentNodes
            /\ lastLookup.name \in PlainLookupNames)
       => LET e == LookupChild(nodes[lastLookup.parent].te, lastLookup.name)
              we == LookupChild(nodes[lastLookup.parent].te,
                                whiteoutPrefix \o lastLookup.name)
          IN  (lastLookup.err = "ENOENT") <=> (e = 0 /\ we = 0)

\* under one directory node, a (which has a whiteout too) gave a content
\* node, b (only a whiteout) gave a cached whiteout node, and x was not found
C11_Witness ==
    \E n \in ContentNodes :
        /\ {"a", "b"} \subseteq DOMAIN nodes[n].child
        /\ nodes[nodes[n].child["a"]].kind = "node"
        /\ nodes[nodes[n].child["b"]].kind = "whiteout"
        /\ lastLookup.parent = n
        /\ lastLookup.name = "x"
        /\ lastLookup.err = "ENOENT"

\* C12: every directory content node a lookup has produced, under a content
\* node or as the root directory of an archive, has its opaque flag set if
\* and only if its backing entry has a child named .wh..wh..opq.
C12_OpaqueFlag ==
    \A i \in ContentNodes :
        Archive[nodes[i].te].Type = "dir" =>
            (nodes[i].opaque <=> LookupChild(nodes[i].te, whiteoutOpaqueDir) # 0)

----------------------------------------------------------------------------
(* C13, C14: extended attributes *)

\* the names a listxattr result holds, in order, each ended by the byte 0
RECURSIVE SplitNames(_, _)
SplitNames(b, cur) ==
    IF b = <<>> THEN <<>>
    ELSE IF Head(b) = NUL THEN <<cur>> \o SplitNames(Tail(b), <<>>)
    ELSE SplitNames(Tail(b), Append(cur, Head(b)))

\* the attribute names of the node: the stored ones and, on an opaque node,
\* the opaque marker
UnionNames ==
    DOMAIN teXattrs \cup (IF nOpaque THEN {opaqueXattr} ELSE {})

\* C13: listxattr at offset 0 returns exactly the stored names plus, iff the
\* node is opaque, trusted.overlay.opaque, each name once; getxattr at
\* offset 0 returns the stored value for every stored name, and y for
\* trusted.overlay.opaque on an opaque node.
C13_XattrUnion ==
    /\ (lastXattr.op = "list" /\ lastXattr.pos = 0) =>
          LET names == SplitNames(lastXattr.data, <<>>) IN
          /\ {names[i] : i \in 1 .. Len(names)} = {Bytes(k) : k \in UnionNames}
          /\ Len(names) = Cardinality(UnionNames)
    /\ (lastXattr.op = "get" /\ lastXattr.pos = 0) =>
          /\ lastXattr.name \in DOMAIN teXattrs =>
                lastXattr.data = Bytes(teXattrs[lastXattr.name])
          /\ (lastXattr.name = opaqueXattr /\ nOpaque) =>
                lastXattr.data = Bytes(opaqueXattrValue)

\* result b, asked for at offset q, is what result a, asked for at a smaller
\* offset p, leaves from q on
SuffixOfSame(a, p, b, q) == p < q => b = FromPosition(a, q - p)

\* C14: the result of listxattr or getxattr at offset p is the serialized
\* byte sequence from byte p on, empty when p is at or beyond its end; and
\* the results of two listxattr calls on one node with different offsets
\* are suffixes of one and the same byte sequence.
C14_XattrSuffix ==
    /\ lastXattr.op = "get" =>
          lastXattr.data = FromPosition(XattrOf(lastXattr.name), lastXattr.pos)
    /\ lastXattr.op = "list" =>
          \E order \in Orders(DOMAIN teXattrs) :
              lastXattr.data = FromPosition(AllXattrs(order), lastXattr.pos)
    /\ (lastXattr.op = "list" /\ firstList.called) =>
          /\ SuffixOfSame(firstList.data, firstList.pos,
                          lastXattr.data, lastXattr.pos)
          /\ SuffixOfSame(lastXattr.data, lastXattr.pos,
                          firstList.data, firstList.pos)

----------------------------------------------------------------------------
(* C15 - C17: reads *)

Covered(pos) == \E c \in chunks : Covers(c, pos)

\* how many bytes, at most `size`, lie in chunks from `offset` on without a
\* break
RECURSIVE RunLen(_, _)
RunLen(offset, size) ==
    IF size = 0 \/ ~Covered(offset) THEN 0
    ELSE 1 + RunLen(offset + 1, size - 1)

\* what fetching the range from the archive without any cache gives
DirectFetch(offset, size) == FileBytes(offset, offset + RunLen(offset, size))

\* C15: whatever reads went before on the handle, a read that succeeds
\* returns the bytes that a direct, uncached fetch of the same range gives;
\* the cached slot never holds bytes other than those of the chunk it is
\* keyed by.
C15_ChunkCacheCorrect ==
    /\ lastRead.err = "" =>
          lastRead.data = DirectFetch(lastRead.offset, lastRead.size)
    /\ \/ lastChunkOff = 0 /\ lastChunkSize = 0 /\ lastChunk = <<>>
       \/ /\ [ChunkOffset |-> lastChunkOff, ChunkSize |-> lastChunkSize]
                \in chunks
          /\ lastChunk = FileBytes(lastChunkOff, lastChunkOff + lastChunkSize)

\* a read that took one chunk from the cached slot and fetched another
C15_Witness ==
    /\ lastRead.hits >= 1
    /\ lastRead.err = ""
    /\ lastChunkOff > lastRead.offset
    /\ Len(lastRead.data) >= 2

\* the end of the file, or the first byte from `offset` on that no chunk
\* holds
RECURSIVE GapOrEnd(_)
GapOrEnd(offset) ==
    IF offset >= fileSize \/ ~Covered(offset) THEN Min(offset, fileSize)
    ELSE GapOrEnd(offset + 1)

ReadAtOrBeyondEnd ==
    (lastRead.size > 0 /\ lastRead.offset >= fileSize) =>
        (lastRead.data = <<>> /\ lastRead.err = "")

PastEnd ==
    /\ lastRead.err = ""
    /\ lastRead.offset < fileSize
    /\ lastRead.offset + lastRead.size > fileSize

\* C16 as claimed: a read at or beyond the end of the file returns no bytes
\* and no error; a read that extends past the end returns exactly the bytes
\* from its offset to the end of the file.
C16_ReadToEndOfFile ==
    /\ ReadAtOrBeyondEnd
    /\ PastEnd => lastRead.data = FileBytes(lastRead.offset, fileSize)

\* C16 as amended: a read at or beyond the end of the file returns no bytes
\* and no error; a read that extends past the end returns exactly the bytes
\* from its offset to the end of the file or to the first gap between
\* chunks, whichever comes first.
C16_ReadBoundary ==
    /\ ReadAtOrBeyondEnd
    /\ PastEnd =>
          lastRead.data = FileBytes(lastRead.offset, GapOrEnd(lastRead.offset))

\* a file of MaxFileSize bytes in two chunks, read from offset 0 with a
\* larger size: all its bytes came back
C16_Witness ==
    /\ fileSize = MaxFileSize
    /\ Cardinality(chunks) = 2
    /\ lastRead.offset = 0
    /\ lastRead.size > fileSize
    /\ lastRead.err = ""
    /\ lastRead.data = FileBytes(0, fileSize)

\* C17: a read that succeeds returns no more bytes than asked for, fewer
\* only when the archive has no chunk at the position after the last byte
\* returned, and always the unbroken range that starts at the offset asked
\* for.
C17_ReadContiguous ==
    (lastRead.err = "" /\ lastRead.size > 0) =>
        /\ Len(lastRead.data) <= lastRead.size
        /\ Len(lastRead.data) < lastRead.size =>
              ~ChunkEntryForOffset(lastRead.offset + Len(lastRead.data)).ok
        /\ lastRead.data =
              FileBytes(lastRead.offset, lastRead.offset + Len(lastRead.data))

\* a read that stopped at a gap with a chunk beyond it, and returned fewer
\* bytes than asked for
C17_Witness ==
    /\ lastRead.err = ""
    /\ lastRead.data # <<>>
    /\ Len(lastRead.data) < lastRead.size
    /\ \E c \in chunks : c.ChunkOffset > lastRead.offset + Len(lastRead.data)

----------------------------------------------------------------------------
(* C18: the root directory *)

\* the two entries of the root with the inode numbers their dirEnts hold
RootEntries ==
    {Dirent(lazyV[n], RootDtype(n), n) : n \in RootNames}

----------------------------------------------------------------------------
(* C19, C20: failures *)

\* the nodes of archive root directories, each holding its open file in f
ArchiveRootNodes == {i \in ContentNodes : nodes[i].te = 1}

\* C19: a debug-root lookup in which opening the file, reading its size,
\* parsing the archive or finding the root entry fails returns an error and
\* no node, and closes the file if it had opened it: the only files left
\* open are those of the nodes that lookups returned.
C19_DebugRootFailure ==
    /\ \A outcome \in OpenOutcomes \ {"ok"} :
          /\ ~DebugRootLookup(outcome).node
          /\ DebugRootLookup(outcome).err # ""
          /\ DebugRootLookup(outcome).closed = DebugRootLookup(outcome).opened
    /\ openFiles = Cardinality(ArchiveRootNodes)
    /\ Cardinality(ArchiveRootNodes) = Len(readers)
    /\ (lastLookup.parent = 0 /\ lastLookup.name = "rootfs"
            /\ lastLookup.err # "") => lastLookup.inode = 0

\* after a lookup that gave an archive's root node, a lookup failed for
\* want of a root entry in the archive
C19_Witness ==
    /\ lastLookup.name = "rootfs"
    /\ lastLookup.err = "noroot"
    /\ Len(readers) = 1
    /\ openFiles = 1

\* a request that ends with a recoverable failure: a lookup that is not
\* found (under a content node, under the root for a name it does not hold,
\* or of rootfs when the archive file does not exist), or a readlink of a
\* node that is no symlink
FailedRequest ==
    \/ \E n \in 1 .. Len(nodes), name \in LookupNames :
          NodeLookup(n, name) /\ NodeLookupResolve(n, name).res = "ENOENT"
    \/ RootLookupMissing("x")
    \/ RootLookupRootfs("open", 1)
    \/ \E n \in 1 .. Len(nodes) :
          NodeReadlink(n) /\ ReadlinkResult(n).err = "EINVAL"

\* the child caches, the inode counter and the assigned inode numbers, on
\* which the results of other requests depend, are as before
FrameKept ==
    /\ atomicInodeIncr' = atomicInodeIncr
    /\ lazyV' = lazyV
    /\ Len(nodes') = Len(nodes)
    /\ \A i \in 1 .. Len(nodes) : nodes'[i].child = nodes[i].child

\* C20: a request that ends with a recoverable failure leaves every node's
\* child cache and the shared inode counter as they were, and with them the
\* results of all other requests.
C20_FailureRequestScoped == [][FailedRequest => FrameKept]_vars

----------------------------------------------------------------------------
(* C21 - C23: open, readlink and attr of one node *)

\* C21: node.Open gives, for a directory open, a directory handle with no
\* byte reader; for a file open a handle bound to a byte reader over the
\* entry with an empty chunk cache; and when Reader.OpenFile fails, the error
\* of OpenFile and no handle.
C21_OpenHandle ==
    nodeOp.op = "Open" =>
        IF nodeOp.dir
        THEN /\ nodeOp.err = ""
             /\ nodeOp.handle = <<[NewNodeHandle(TRUE) EXCEPT !.sr = <<>>]>>
        ELSE IF nodeOp.openFileErr # ""
        THEN /\ nodeOp.err = nodeOp.openFileErr
             /\ nodeOp.handle = <<>>
        ELSE /\ nodeOp.err = ""
             /\ Len(nodeOp.handle) = 1
             /\ ~nodeOp.handle[1].isDir
             /\ nodeOp.handle[1].sr = <<nodeTe.ptr>>
             /\ nodeOp.handle[1].lastChunkOff = 0
             /\ nodeOp.handle[1].lastChunkSize = 0
             /\ nodeOp.handle[1].lastChunk = <<>>

\* a file open whose OpenFile failed
C21_Witness ==
    /\ nodeOp.op = "Open"
    /\ ~nodeOp.dir
    /\ nodeOp.openFileErr # ""
    /\ nodeOp.handle = <<>>

\* C22: node.Readlink gives the stored link target of a symlink entry, and
\* EINVAL with no target for an entry of any other type.
C22_Readlink ==
    nodeOp.op = "Readlink" =>
        IF nodeTe.Type = "symlink"
        THEN nodeOp.err = "" /\ nodeOp.target = nodeTe.LinkName
        ELSE nodeOp.err = "EINVAL" /\ nodeOp.target = ""

\* a readlink of an entry that is no symlink and yet stores a link name
C22_Witness ==
    /\ nodeOp.op = "Readlink"
    /\ nodeTe.Type = "hardlink"
    /\ nodeTe.LinkName # ""
    /\ nodeOp.err = "EINVAL"

\* C23: the link count of an attr response is never 0: for a content node
\* it is 1 when TOCEntry.NumLink is 0 and NumLink itself otherwise, and for
\* a whiteout node it is 1.
C23_LinkCount ==
    /\ nodeOp.op \in {"Attr", "WhiteoutAttr"} => nodeOp.Nlink # 0
    /\ nodeOp.op = "Attr" =>
           nodeOp.Nlink = IF nodeTe.NumLink = 0 THEN 1 ELSE nodeTe.NumLink
    /\ nodeOp.op = "WhiteoutAttr" => nodeOp.Nlink = 1

----------------------------------------------------------------------------
(* C24: the width of the inode numbers *)

\* C24: every inode number reported, by the Attr of a node of any kind and
\* by a Lookup, fits 32 bits.
C24_Inode32Bit ==
    /\ lazyV["root"] <= Uint32Modulus - 1
    /\ \A i \in 1 .. Len(nodes) : AttrInode(i) <= Uint32Modulus - 1
    /\ \A l \in lookups : l[3] <= Uint32Modulus - 1

----------------------------------------------------------------------------
(* C30: what becomes of the values drawn from the counter *)

\* C30: two different lazyInode slots never hold the same nonzero value, and
\* a value whose compare-and-swap failed is held by no slot.
C30_DrawnValueOneSlot ==
    /\ \A s, t \in Slots :
           (s # t /\ lazyV[s] # 0) => lazyV[s] # lazyV[t]
    /\ \A x \in lost : \A s \in Slots : lazyV[s] # x

\* a compare-and-swap failed, and afterwards two slots were assigned
C30_Witness ==
    /\ lost # {}
    /\ Cardinality({s \in Slots : lazyV[s] # 0}) >= 2

----------------------------------------------------------------------------
(* C26: concurrent lookups of one name under one content node *)

\* the calls that came back with a node
Found == {r \in lookupReturns : r[3] = ""}

\* C26: under any interleaving of lookups under one content node, at most
\* one child object is made per name, every lookup of the name that gives a
\* node gives that object, and an entry of n.child is never replaced or
\* removed.
C26_OneChildPerName ==
    /\ [](\A i, j \in 1 .. Len(childObjs) :
             childObjs[i].name = childObjs[j].name => i = j)
    /\ [](\A r \in Found :
             /\ r[1] \in DOMAIN nodeChild
             /\ r[2] = nodeChild[r[1]]
             /\ childObjs[r[2]].name = r[1])
    /\ [][\A name \in DOMAIN nodeChild :
             /\ name \in DOMAIN nodeChild'
             /\ nodeChild'[name] = nodeChild[name]]_vars

\* one worker waits for n.mu with the name for which the worker that holds
\* n.mu has just made the child
C26_Witness ==
    \E w1, w2 \in Workers :
        /\ w1 # w2
        /\ pc[w1] = "nUnlock" /\ pc[w2] = "nLock"
        /\ lookupReq[w1].name = lookupReq[w2].name
        /\ lookupReq[w1].child # 0
        /\ Len(childObjs) = 1

----------------------------------------------------------------------------
(* C27, C29: concurrent reads on one handle *)

\* C27: whenever h.mu is free, the cached chunk is the bytes of the archive
\* range that the cached key names, and every read that returns without an
\* error returns the bytes that a direct, uncached fetch of its range gives.
C27_NoTornChunkCache ==
    /\ ~Locked(hMu) =>
          \/ lastChunkOff = 0 /\ lastChunkSize = 0 /\ lastChunk = <<>>
          \/ /\ [ChunkOffset |-> lastChunkOff, ChunkSize |-> lastChunkSize]
                   \in chunks
             /\ lastChunk = FileBytes(lastChunkOff, lastChunkOff + lastChunkSize)
    /\ \A w \in ReaderIds :
          (rdr[w].pc = "idle" /\ rdr[w].err = "")
              => rdr[w].data = DirectFetch(rdr[w].offset, rdr[w].size)

\* a request is in the middle of storing one chunk over another, holding
\* h.mu, while the other request waits at the test of the key for a chunk
\* that is not the one being stored
C27_Witness ==
    \E w1, w2 \in ReaderIds :
        /\ rdr[w1].pc = "cdStoreSize" /\ rdr[w2].pc = "cdCheck"
        /\ hMu = w1
        /\ lastChunk # <<>>
        /\ lastChunk # rdr[w1].buf
        /\ lastChunkSize # rdr[w1].ce.ChunkSize
        /\ rdr[w2].ce # rdr[w1].ce

\* C29: every iteration of the loop of Read that does not leave the loop
\* adds at least one byte to the response, whatever chunk the archive
\* reader named: one of no bytes, or one served from the cached slot.
C29_ReadLoopProgress ==
    [][\A w \in ReaderIds :
          (rdr[w].pc = "rCopy" /\ rdr'[w].pc = "rLoop")
              => Len(rdr'[w].data) > Len(rdr[w].data)]_vars

----------------------------------------------------------------------------
(* C28: locks and I/O *)

\* a request that is fetching the bytes of a chunk holds no lock
FetchWithoutLock ==
    \A w \in ReaderIds : rdr[w].pc = "cdReadAt" => hMu # w

\* C28: a worker that is opening and parsing an archive file holds neither
\* the mutex of the root's dirEnts nor the one of its sync.Once, and a
\* request that is fetching the bytes of a chunk holds no lock.
C28_NoLockAcrossIO ==
    /\ \A w \in Workers :
           pc[w] = "lookupNode" => (mu # w /\ initOnce.m # w)
    /\ FetchWithoutLock

----------------------------------------------------------------------------
(* C25: the life of the process *)

Exited == proc.exit # "running"

\* C25: once mounted the process does not end before a signal arrives or
\* serving fails; when it ends after a signal has arrived, the mount point
\* is no longer mounted; and when mounting or serving has failed, it ends
\* with a status other than 0.
C25_ProcessLifecycle ==
    /\ (Exited /\ env.mounted) =>
           ("signal" \in env.events \/ "serveFailed" \in env.events)
    /\ (Exited /\ "signal" \in env.events) => ~env.mounted
    /\ (Exited /\ env.events \cap {"mountFailed", "serveFailed"} # {}) =>
           proc.exit # "0"


----------------------------------------------------------------------------
(* Claims on the chunk cache of a fresh handle and on failed fetches       *)

\* C31: on a freshly opened handle the chunk cache is empty: while no chunk
\* has been stored, chunkData never finds the chunk it is asked for in the
\* slot, whatever offset and size the archive reader names; every first
\* request fetches from the underlying reader
C31_FreshCacheMisses ==
    [][\A w \in ReaderIds :
          (~stored /\ rdr[w].pc = "cdCheck" /\ rdr'[w].pc # "cdCheck")
              => rdr'[w].pc = "cdReadAt"]_vars

\* the step of a request that leaves the ReadAt of chunkData
Fetched(w) == rdr[w].pc = "cdReadAt" /\ rdr'[w].pc # "cdReadAt"

\* C32: when the underlying reader fails to fetch a chunk the read request
\* returns an error and no data, and the slot (key and bytes) is as it was
\* before the fetch; only a fetch without error goes on to the store, with
\* the bytes of the chunk in its buffer
C32_FailedFetchLeavesCache ==
    [][\A w \in ReaderIds : Fetched(w) =>
          LET r == ReadAt(rdr[w].ce.ChunkOffset, rdr[w].ce.ChunkSize)
          IN  \/ /\ rdr'[w].pc = "idle"
                 /\ rdr'[w].err # ""
                 /\ rdr'[w].data = <<>>
                 /\ UNCHANGED <<lastChunkOff, lastChunkSize, lastChunk,
                                stored, hMu>>
              \/ /\ r.err = ""
                 /\ rdr'[w].pc = "cdStoreOff"
                 /\ rdr'[w].buf = r.buf
                 /\ UNCHANGED <<lastChunkOff, lastChunkSize, lastChunk,
                                stored>>]_vars

\* a request has returned an error while the slot holds a chunk that an
\* earlier fetch stored
C32_Witness ==
    \E w \in ReaderIds :
        /\ rdr[w].pc = "idle"
        /\ rdr[w].err = "EIO"
        /\ stored
        /\ lastChunk # <<>>
        /\ ~Locked(hMu)

----------------------------------------------------------------------------
(* Claims on the child cache of a content node                             *)

\* what the child cache of a content node may hold under the name x: a
\* whiteout of the entry .wh.x when the entry of the node has a child .wh.x
\* and no child x, and else a content node of the child x
CoherentChild(n, x) ==
    LET c == nodes[nodes[n].child[x]]
        e == LookupChild(nodes[n].te, x)
        we == LookupChild(nodes[n].te, whiteoutPrefix \o x)
    IN  /\ c.reader = nodes[n].reader
        /\ c.kind \in {"whiteout", "node"}
        /\ c.kind = "whiteout" <=> (we # 0 /\ e = 0)
        /\ c.kind = "whiteout" => c.te = we
        /\ c.kind = "node" => (e # 0 /\ c.te = e)

\* C37: child-cache coherence: every key of the child cache of a content
\* node is a name without the whiteout prefix; the node cached under x is
\* a whiteout node exactly when the backing entry has a child .wh.x and no
\* child x, and otherwise a content node wrapping the backing child x; a
\* name whose lookup reported not-found is never a key
C37_ChildCacheCoherent ==
    \A n \in ContentNodes : \A x \in DOMAIN nodes[n].child :
        /\ ~HasPrefix(x, whiteoutPrefix)
        /\ CoherentChild(n, x)
        /\ (lastLookup.parent = n /\ lastLookup.err = "ENOENT")
               => lastLookup.name # x

\* a content node caches a whiteout under one name and a content node
\* under another, after a prefixed name and a missing name were refused
C37_Witness ==
    \E n \in ContentNodes :
        /\ \E x, y \in DOMAIN nodes[n].child :
               /\ nodes[nodes[n].child[x]].kind = "whiteout"
               /\ nodes[nodes[n].child[y]].kind = "node"
        /\ lastLookup.parent = n
        /\ lastLookup.err = "ENOENT"

----------------------------------------------------------------------------
(* Claims on the independence of the caches                                *)

\* the child cache of the node object n in the heap hp
ChildCacheOf(hp, n) ==
    IF hp.nodes[n].kind = "node" THEN hp.maps[hp.nodes[n].child] ELSE <<>>

\* the chunk cache of the handle h in the heap hp
ChunkCacheOf(hp, h) ==
    <<hp.handles[h].lastChunkOff, hp.handles[h].lastChunkSize,
      hp.handles[h].lastChunk>>

\* the request of w takes a step of a Lookup under the node n
LookupStepOn(w, n) ==
    /\ task'[w] # task[w]
    /\ task[w].pc \in {"lLock", "lBody", "lUnlock"}
    /\ task[w].on = n

\* the request of w takes a step of a Read on the handle h
ReadStepOn(w, h) ==
    /\ task'[w] # task[w]
    /\ task[w].pc \in {"cCheck", "cReadAt", "cStore", "rCopy"}
    /\ task[w].on = h

\* C33: caches are independent: in every interleaving of requests on
\* several nodes and handles the child cache of a node changes only in a
\* step of a lookup under that node, and the chunk cache of a handle only
\* in a step of a read on that handle
C33_CachesIndependent ==
    [][/\ \A n \in 1 .. Len(heap.nodes) :
              ChildCacheOf(heap', n) # ChildCacheOf(heap, n)
                  => \E w \in CacheWorkers : LookupStepOn(w, n)
       /\ \A h \in 1 .. Len(heap.handles) :
              ChunkCacheOf(heap', h) # ChunkCacheOf(heap, h)
                  => \E w \in CacheWorkers : ReadStepOn(w, h)]_vars

\* two nodes and two handles hold caches that differ, while one request
\* is inside a lookup and another inside a read
C33_Witness ==
    /\ \E n, m \in DirNodes :
           /\ ChildCacheOf(heap, n) # <<>>
           /\ ChildCacheOf(heap, m) # <<>>
           /\ DOMAIN ChildCacheOf(heap, n) # DOMAIN ChildCacheOf(heap, m)
    /\ Len(heap.handles) = 2
    /\ heap.handles[1].lastChunk # <<>>
    /\ heap.handles[2].lastChunk # <<>>
    /\ ChunkCacheOf(heap, 1) # ChunkCacheOf(heap, 2)
    /\ \E w, u \in CacheWorkers :
           /\ task[w].pc = "lUnlock"
           /\ task[u].pc = "rCopy"

----------------------------------------------------------------------------
(* Claims on the login of the web application                              *)

\* the requests whose VerifyMagicLink returned the email of token t
VerifiedWith(t) ==
    {w \in LoginWorkers : login[w].verified /\ login[w].token = t}

\* C38: a magic-link token is single-use: among the VerifyMagicLink calls
\* with one token, in any interleaving, at most one returns the email
\* without error; a call for an unknown or expired token returns an error,
\* and only a request whose call returned the email creates a session
C38_TokenSingleUse ==
    /\ \A t \in LoginTokens : Cardinality(VerifiedWith(t)) <= 1
    /\ \A w \in LoginWorkers :
           login[w].token \in {"", "zz", "old"} => ~login[w].verified
    /\ \A i \in 1 .. Len(db.sessions) : login[db.sessions[i].by].verified

\* the requests whose CreateOrGetUser has returned
UserReturned == {w \in LoginWorkers : login[w].userErr # ""}

\* C39: all CreateOrGetUser calls with one email, in any interleaving,
\* return without error the same user ID, and the users table never holds
\* two rows with one email
C39_OneUserPerEmail ==
    /\ \A w, u \in UserReturned :
           login[w].email = login[u].email =>
               /\ login[w].userErr = "none"
               /\ login[w].userID = login[u].userID
    /\ \A i, j \in 1 .. Len(db.users) :
           db.users[i] = db.users[j] => i = j

----------------------------------------------------------------------------
(* Claims on the agreement of listing, lookup and attr                     *)

\* the names of a listing
ListedNames(L) == {L[i].Name : i \in 1 .. Len(L)}

\* C36: the merged listing of a directory never holds two entries with one
\* name and never an entry with the empty name, whatever the distinct
\* names of the backing children are
C36_ListingNamesDistinct ==
    \A L \in listings :
        /\ \A i, j \in 1 .. Len(L) : L[i].Name = L[j].Name => i = j
        /\ "" \notin ListedNames(L)

\* the names that are asked for: every name a child may have, every name a
\* whiteout may stand for, and a name that no child has
ProbedNames ==
    NameUniverse \cup {"x"} \cup
    {StripPrefix(n) : n \in {m \in NameUniverse : HasPrefix(m, whiteoutPrefix)}}

\* C34: listing and lookup agree: a name is in the merged listing of a
\* directory exactly when the lookup of that name under the directory
\* succeeds, and the listed entry is of character-device type exactly when
\* the lookup returns a whiteout node
C34_ListingAgreesWithLookup ==
    \A L \in listings :
        /\ \A name \in ProbedNames :
               name \in ListedNames(L)
                   <=> LookupAmong(dirChildren, name).res # "ENOENT"
        /\ \A i \in 1 .. Len(L) :
               L[i].Type = "DT_Char"
                   <=> LookupAmong(dirChildren, L[i].Name).res = "whiteout"

\* C35: listing and attr agree on identity: for every directory, the root
\* included, and every name in its listing, the inode of the directory
\* entry is the inode that attr reports for the node that the lookup of
\* that name under the same directory returns
C35_ListingAgreesWithAttr ==
    /\ \A L \in rootListings : \A i \in 1 .. Len(L) : \A l \in lookups :
           (l[1] = 0 /\ l[2] = L[i].Name) => L[i].Inode = l[3]
    /\ \A r \in listings : \A i \in 1 .. Len(r.ents) : \A l \in lookups :
           (l[1] = r.dir /\ l[2] = r.ents[i].Name) => r.ents[i].Inode = l[3]

====
